---- MODULE Spec2Model ----
(***************************************************************************)
(* Time-machine visibility filters and EAC / forecast-quality helpers of   *)
(* the backcast EVM backend.                                               *)
(*                                                                         *)
(* Dates are day numbers.  A timestamp is a number of clock ticks since    *)
(* 00:00:00 UTC of day 0; a day has TicksPerDay ticks, the last of which   *)
(* stands for 23:59:59.999999 (time.max).  A Decimal is a record           *)
(* [unscaled, places] denoting unscaled / 10^places, so that both the      *)
(* value and the number of decimal places of a result can be stated.       *)
(***************************************************************************)
EXTENDS Integers, Sequences, FiniteSets, TLC

(* ------------------------------ bounds -------------------------------- *)

MaxDay == 2

TicksPerDay == 2

MaxElems == 2

MaxSchedules == 2

Days == 0..MaxDay

Timestamps == 0..((MaxDay + 1) * TicksPerDay + TicksPerDay - 1)

(* ============================ time_machine ============================ *)

SCHEDULE == "schedule"

EARNED_VALUE == "earned_value"

COST_REGISTRATION == "cost_registration"

TimeMachineEventType == {SCHEDULE, EARNED_VALUE, COST_REGISTRATION}

\* A value that is not (yet) a key of the registry: Python does not stop a
\* caller from passing it, and a future enum member would look like this.
QUALITY_EVENT == "quality_event"

EventTypeInputs == TimeMachineEventType \cup {QUALITY_EVENT}

\* The day a timestamp falls on (UTC).
DayOf(ts) == ts \div TicksPerDay

end_of_day_no_max(control_date) == control_date * TicksPerDay

end_of_day(control_date) == control_date * TicksPerDay + (TicksPerDay - 1)

\* A column comparison "table.column <= value" (ColumnElement[bool]).
Le(table, column, value) ==
  [table |-> table, column |-> column, op |-> "<=", value |-> value]

schedule_filters_no_registration(control_date) ==
  << Le("CostElementSchedule", "created_at", end_of_day(control_date)) >>

schedule_filters_no_created(control_date) ==
  << Le("CostElementSchedule", "registration_date", control_date) >>

schedule_filters(control_date) ==
  LET cutoff == end_of_day(control_date)
  IN  << Le("CostElementSchedule", "registration_date", control_date),
         Le("CostElementSchedule", "created_at", cutoff) >>

earned_value_filters_exact_day(control_date) ==
  LET cutoff == end_of_day(control_date)
  IN  << [Le("EarnedValueEntry", "completion_date", control_date)
            EXCEPT !.op = "="],
         Le("EarnedValueEntry", "registration_date", control_date),
         Le("EarnedValueEntry", "created_at", cutoff) >>

earned_value_filters(control_date) ==
  LET cutoff == end_of_day(control_date)
  IN  << Le("EarnedValueEntry", "completion_date", control_date),
         Le("EarnedValueEntry", "registration_date", control_date),
         Le("EarnedValueEntry", "created_at", cutoff) >>

cost_registration_filters(control_date) ==
  LET cutoff == end_of_day(control_date)
  IN  << Le("CostRegistration", "registration_date", control_date),
         Le("CostRegistration", "created_at", cutoff) >>

\* Factories a caller can hand to register_time_machine_filters: the three
\* built-in ones and one that yields no predicate at all.
FilterFactory ==
  {"_schedule_filters", "_earned_value_filters", "_cost_registration_filters",
   "_no_filters"}

\* factory(control_date)
CallFactory(factory, control_date) ==
  CASE factory = "_schedule_filters" -> schedule_filters(control_date)
    [] factory = "_earned_value_filters" -> earned_value_filters(control_date)
    [] factory = "_cost_registration_filters" ->
         cost_registration_filters(control_date)
    [] OTHER -> << >>

\* The registry as the module body builds it.
BuiltinRegistry ==
  [e \in TimeMachineEventType |->
     CASE e = SCHEDULE -> "_schedule_filters"
       [] e = EARNED_VALUE -> "_earned_value_filters"
       [] OTHER -> "_cost_registration_filters"]

\* Rows of the three tables, as far as the filters look at them.
Table(event_type) ==
  CASE event_type = SCHEDULE -> "CostElementSchedule"
    [] event_type = EARNED_VALUE -> "EarnedValueEntry"
    [] event_type = COST_REGISTRATION -> "CostRegistration"
    [] OTHER -> "QualityEvent"

Rows(table) ==
  IF table = "EarnedValueEntry"
  THEN [table : {table}, completion_date : Days, registration_date : Days,
        created_at : Timestamps]
  ELSE [table : {table}, registration_date : Days, created_at : Timestamps]

NoRow == [table |-> "none"]

\* The database's evaluation of one WHERE predicate on one row.
Holds(predicate, row) ==
  /\ predicate.table = row.table
  /\ IF predicate.op = "<="
     THEN row[predicate.column] <= predicate.value
     ELSE row[predicate.column] = predicate.value

\* A row is returned by a statement iff every predicate of its WHERE holds.
Selects(whereclause, row) ==
  \A i \in 1..Len(whereclause) : Holds(whereclause[i], row)

\* select(Table), optionally already narrowed to a set of cost elements.
Statement(id, table, whereclause) ==
  [id |-> id, table |-> table, whereclause |-> whereclause]

NoStatement == Statement(0, "none", << >>)

StatementInputs ==
  {Statement(1, Table(e), << >>) : e \in TimeMachineEventType}

\* Select.where(*filters): generative, returns a new statement object.
Where(statement, filters) ==
  Statement(statement.id + 1, statement.table, statement.whereclause \o filters)

VARIABLES
  VISIBILITY_FILTERS,   \* _VISIBILITY_FILTERS: event type -> factory
  tmCall                \* the last time-machine call and what it returned

tmVars == << VISIBILITY_FILTERS, tmCall >>

NoCall ==
  [fn |-> "none", event_type |-> "none", control_date |-> 0,
   factory |-> "none", raised |-> "none", filters |-> << >>,
   statement |-> NoStatement, result |-> NoStatement,
   row |-> NoRow, visible |-> FALSE]

\* get_visibility_filters as a function of the registry: the exception it
\* raises ("none" when it returns) and the tuple it returns.
get_visibility_filters_swallow(registry, event_type, control_date) ==
  IF event_type \notin DOMAIN registry
  THEN [raised |-> "none", filters |-> << >>]
  ELSE [raised |-> "none",
        filters |-> CallFactory(registry[event_type], control_date)]

get_visibility_filters(registry, event_type, control_date) ==
  IF event_type \notin DOMAIN registry
  THEN [raised |-> "ValueError", filters |-> << >>]
  ELSE [raised |-> "none",
        filters |-> CallFactory(registry[event_type], control_date)]

apply_time_machine_filters(registry, statement, event_type, control_date) ==
  LET got == get_visibility_filters(registry, event_type, control_date)
  IN  IF got.raised # "none"
      THEN [raised |-> got.raised, filters |-> << >>, result |-> NoStatement]
      ELSE IF got.filters = << >>
           THEN [raised |-> "none", filters |-> got.filters,
                 result |-> statement]
           ELSE [raised |-> "none", filters |-> got.filters,
                 result |-> Where(statement, got.filters)]

register_clobber(registry, event_type, factory) ==
  [e \in {event_type} |-> factory]

register_time_machine_filters(registry, event_type, factory) ==
  [e \in (DOMAIN registry) \cup {event_type} |->
     IF e = event_type THEN factory ELSE registry[e]]

(* ============================== Decimal =============================== *)

Dec(unscaled, places) == [unscaled |-> unscaled, places |-> places]

\* Python's None where a Decimal is optional.
None == Dec(0, -1)

Abs(n) == IF n < 0 THEN -n ELSE n

Sgn(n) == IF n < 0 THEN -1 ELSE 1

Max(a, b) == IF a >= b THEN a ELSE b

Min(a, b) == IF a <= b THEN a ELSE b

RECURSIVE Pow10(_)
Pow10(n) == IF n = 0 THEN 1 ELSE 10 * Pow10(n - 1)

\* The unscaled value of d once written with `places` decimal places
\* (places >= d.places).
Rescale(d, places) == d.unscaled * Pow10(places - d.places)

\* Decimal.__eq__ and Decimal.__gt__ compare values, not representations.
DecEq(a, b) ==
  LET p == Max(a.places, b.places) IN Rescale(a, p) = Rescale(b, p)

DecGt(a, b) ==
  LET p == Max(a.places, b.places) IN Rescale(a, p) > Rescale(b, p)

\* Decimal.__add__ is exact; the result carries the finer exponent.
DecAdd(a, b) ==
  LET p == Max(a.places, b.places) IN Dec(Rescale(a, p) + Rescale(b, p), p)

\* n / d rounded to an integer, ties to the even neighbour, d > 0.
DivHalfEven(n, d) ==
  LET q == Abs(n) \div d
      r == Abs(n) % d
  IN  Sgn(n) * (IF 2 * r > d \/ (2 * r = d /\ q % 2 = 1) THEN q + 1 ELSE q)

\* n / d rounded to an integer, ties away from zero (ROUND_HALF_UP), d > 0.
DivHalfUp(n, d) ==
  LET q == Abs(n) \div d
      r == Abs(n) % d
  IN  Sgn(n) * (IF 2 * r >= d THEN q + 1 ELSE q)

(* ========================== eac_calculation =========================== *)

TWO_PLACES == 2

FOUR_PLACES == 4

ZERO == Dec(0, 1)

quantize_truncate(value, exp) ==
  IF value.places <= exp
  THEN Dec(Rescale(value, exp), exp)
  ELSE Dec(Sgn(value.unscaled)
             * (Abs(value.unscaled) \div Pow10(value.places - exp)), exp)

\* value.quantize(exp, rounding=ROUND_HALF_UP); exp is given by its number
\* of decimal places.
quantize(value, exp) ==
  IF value.places <= exp
  THEN Dec(Rescale(value, exp), exp)
  ELSE Dec(DivHalfUp(value.unscaled, Pow10(value.places - exp)), exp)

calculate_cost_element_eac_no_fallback(forecast_eac, budget_bac) ==
  IF forecast_eac # None
  THEN quantize(forecast_eac, TWO_PLACES)
  ELSE Dec(0, 2)

calculate_cost_element_eac_zero_falls_back(forecast_eac, budget_bac) ==
  IF forecast_eac # None /\ ~DecEq(forecast_eac, ZERO)
  THEN quantize(forecast_eac, TWO_PLACES)
  ELSE IF budget_bac # None /\ DecGt(budget_bac, ZERO)
       THEN quantize(budget_bac, TWO_PLACES)
       ELSE Dec(0, 2)

calculate_cost_element_eac(forecast_eac, budget_bac) ==
  IF forecast_eac # None
  THEN quantize(forecast_eac, TWO_PLACES)
  ELSE IF budget_bac # None /\ DecGt(budget_bac, ZERO)
       THEN quantize(budget_bac, TWO_PLACES)
       ELSE Dec(0, 2)

calculate_forecasted_quality_no_zero_check(forecast_eac, calculated_eac) ==
  IF forecast_eac # None THEN Dec(10000, 4) ELSE Dec(0, 4)

calculate_forecasted_quality(forecast_eac, calculated_eac) ==
  IF DecEq(calculated_eac, ZERO)
  THEN Dec(0, 4)
  ELSE IF forecast_eac # None THEN Dec(10000, 4) ELSE Dec(0, 4)

\* sum(eac_values, start=Decimal("0.00")), left to right.
RECURSIVE DecSum(_, _)
DecSum(values, start) ==
  IF values = << >> THEN start
  ELSE DecSum(Tail(values), DecAdd(start, Head(values)))

aggregate_eac_skip_first(eac_values) ==
  quantize(DecSum(IF eac_values = << >> THEN << >> ELSE Tail(eac_values),
                  Dec(0, 2)), TWO_PLACES)

aggregate_eac(eac_values) ==
  quantize(DecSum(eac_values, Dec(0, 2)), TWO_PLACES)

\* a / b as the fraction n / d of units of 10^-exp, with d > 0: the exact
\* value of forecast_eac_sum / total_eac before the quantization to exp places.
\* The quotient of two stored amounts is a rational p/q whose distance from
\* any tie of the fifth decimal is either zero or far above the 28-digit
\* precision of the division context, so dividing and then quantizing gives
\* the half-up rounding of the exact quotient.
ScaledQuotient(a, b, exp) ==
  LET m == Min(a.places, b.places)
      n == a.unscaled * Pow10(b.places - m) * Pow10(exp)
      d == b.unscaled * Pow10(a.places - m)
  IN  [n |-> Sgn(d) * n, d |-> Abs(d)]

aggregate_forecasted_quality_half_even(forecast_eac_sum, total_eac) ==
  IF DecEq(total_eac, ZERO)
  THEN Dec(0, 4)
  ELSE LET quality == ScaledQuotient(forecast_eac_sum, total_eac, FOUR_PLACES)
       IN  Dec(DivHalfEven(quality.n, quality.d), FOUR_PLACES)

aggregate_forecasted_quality(forecast_eac_sum, total_eac) ==
  IF DecEq(total_eac, ZERO)
  THEN Dec(0, 4)
  ELSE LET quality == ScaledQuotient(forecast_eac_sum, total_eac, FOUR_PLACES)
       IN  Dec(DivHalfUp(quality.n, quality.d), FOUR_PLACES)

(* ======================= planned value (section 4.4) ================== *)

\* The (start_date, end_date) pairs schedules are drawn from: one spanning
\* every control date and one of zero length starting after day 0.
Periods == {<< 0, MaxDay >>, << 1, 1 >>}

\* The instants schedules are created at: the first and the last instant of
\* every day, and the first instant of the day after the last control date.
CreationInstants ==
  {d * TicksPerDay : d \in 0..(MaxDay + 1)}
    \cup {(d + 1) * TicksPerDay - 1 : d \in Days}

\* Schedules of one cost element.
ScheduleRows ==
  {[table |-> "CostElementSchedule", start_date |-> p[1], end_date |-> p[2],
    progression_type |-> "linear", registration_date |-> r, created_at |-> c] :
     p \in Periods, r \in Days, c \in CreationInstants}

NoSchedule == [table |-> "none"]

BudgetInputs == {Dec(0, 2), Dec(10000, 2)}

\* The schedule query: the SCHEDULE filters, newest registration_date first,
\* newest created_at next; the first row is the cost element's schedule.
get_schedule(registry, schedules, control_date) ==
  LET filters == get_visibility_filters(registry, SCHEDULE, control_date).filters
      seen == {s \in schedules : Selects(filters, s)}
      newest == {s \in seen : \A o \in seen :
                   \/ o.registration_date < s.registration_date
                   \/ /\ o.registration_date = s.registration_date
                      /\ o.created_at <= s.created_at}
  IN  IF newest = {} THEN NoSchedule ELSE CHOOSE s \in newest : TRUE

\* Fraction of the schedule elapsed on control_date, four decimal places.
percent_complete(schedule, control_date) ==
  IF control_date < schedule.start_date THEN Dec(0, 4)
  ELSE IF control_date >= schedule.end_date THEN Dec(10000, 4)
  ELSE Dec(DivHalfUp((control_date - schedule.start_date) * 10000,
                     schedule.end_date - schedule.start_date), 4)

calculate_cost_element_planned_value(budget_bac, schedule, control_date) ==
  IF schedule = NoSchedule
  THEN [planned_value |-> Dec(0, 2), percent_complete |-> Dec(0, 2)]
  ELSE LET pct == percent_complete(schedule, control_date)
           pv == quantize(Dec(budget_bac.unscaled * pct.unscaled,
                              budget_bac.places + pct.places), TWO_PLACES)
       IN  [planned_value |-> pv,
            percent_complete |->
              IF budget_bac.unscaled = 0 THEN Dec(0, 4)
              ELSE LET q == ScaledQuotient(pv, budget_bac, FOUR_PLACES)
                   IN  Dec(DivHalfUp(q.n, q.d), FOUR_PLACES)]

VARIABLES
  budget_bac,     \* the cost element's budget
  schedules,      \* the CostElementSchedule rows of the cost element
  pvQuery         \* the last planned-value request and its answer

pvVars == << budget_bac, schedules, pvQuery >>

NoQuery ==
  [asked |-> FALSE, control_date |-> 0, schedule |-> NoSchedule,
   planned_value |-> Dec(0, 2), percent_complete |-> Dec(0, 2)]

(* =========================== calls and reports ======================== *)

VARIABLES
  eacCall,        \* the last call of an eac_calculation helper
  costElements,   \* (forecast_eac, budget_bac) of the elements of a report
  report          \* the EAC report being computed over costElements

eacVars == << eacCall, costElements, report >>

(* ========================= forecast governance ======================== *)

VARIABLES
  forecasts,      \* the Forecast rows, in insertion order (index = forecast_id)
  fcCall,         \* the last forecast operation and its outcome
  workers,        \* concurrent forecast submissions, each inside a transaction
  locks           \* per cost element: the submission holding its row lock, or 0

fcVars == << forecasts, fcCall, workers, locks >>

(* ============================ EVM metrics ============================= *)

VARIABLES
  baseline_cost_elements,  \* the BaselineCostElement rows of a baseline
  cost_element_metrics,    \* the per-element EVM metrics of a project
  metrics                  \* the last metrics dictionary returned

evmVars == << baseline_cost_elements, cost_element_metrics, metrics >>

(* ======================= planned-value rollup ========================= *)

VARIABLES
  project,        \* the WBEs of a project, each the list of its cost elements
  rollup          \* the last planned values of the project and of its WBEs

rollVars == << project, rollup >>

(* ============================ AI chat ================================= *)

VARIABLES
  db,                 \* the Project, WBE, CostElement and BaselineLog rows
  ctxCall,            \* the last call of collect_context_metrics
  user,               \* the User row get_openai_config is asked about
  app_configuration,  \* the AppConfiguration rows
  cfgCall,            \* the last call of get_openai_config
  handler,            \* the WebSocket handler of one connection
  sent                \* the types of the messages sent on the connection

ctxVars == << db, ctxCall >>

cfgVars == << user, app_configuration, cfgCall >>

wsVars == << handler, sent >>

aiVars == << ctxVars, cfgVars, wsVars >>

vars == << VISIBILITY_FILTERS, tmCall, budget_bac, schedules, pvQuery,
           eacCall, costElements, report, forecasts, fcCall, workers, locks,
           baseline_cost_elements, cost_element_metrics, metrics,
           project, rollup, db, ctxCall, user, app_configuration, cfgCall,
           handler, sent >>

NoEacCall ==
  [fn |-> "none", forecast_eac |-> None, budget_bac |-> None,
   calculated_eac |-> None, forecast_eac_sum |-> None, total_eac |-> None,
   result |-> None]

NoReport ==
  [pc |-> "idle", eacs |-> << >>, forecast_eac_sum |-> Dec(0, 2),
   total_eac |-> None, quality |-> None]

TmIdle == VISIBILITY_FILTERS = BuiltinRegistry /\ tmCall = NoCall

PvIdle == budget_bac = Dec(0, 2) /\ schedules = {} /\ pvQuery = NoQuery

EacIdle == eacCall = NoEacCall /\ costElements = << >> /\ report = NoReport

CostElementIds == 1..MaxElems

Workers == {1, 2}

NoFcCall ==
  [fn |-> "none", cost_element_id |-> 0, forecast_id |-> 0,
   forecast_date |-> 0, raised |-> "none", current_forecast_id |-> 0,
   demoted |-> {},
   ids |-> {}, control_date |-> 0, result |-> << >>]

NoWorker ==
  [pc |-> "idle", cost_element_id |-> 0, forecast_date |-> 0,
   raised |-> "none"]

FcIdle ==
  /\ forecasts = << >>
  /\ fcCall = NoFcCall
  /\ workers = [w \in Workers |-> NoWorker]
  /\ locks = [ce \in CostElementIds |-> 0]

NoMetrics == [context_type |-> "none"]

EvmIdle ==
  /\ baseline_cost_elements = << >>
  /\ cost_element_metrics = << >>
  /\ metrics = NoMetrics

NoRollup ==
  [asked |-> FALSE, control_date |-> 0, wbes |-> << >>, project |-> None]

RollIdle == project = << >> /\ rollup = NoRollup

EmptyDb == [projects |-> {}, wbes |-> {}, cost_elements |-> {},
            baselines |-> {}]

NoCtxCall == [fn |-> "none"]

CtxIdle == db = EmptyDb /\ ctxCall = NoCtxCall

NoCfgCall == [fn |-> "none"]

CfgIdle == user = None /\ app_configuration = {} /\ cfgCall = NoCfgCall

NoHandler == [pc |-> "idle"]

WsIdle == handler = NoHandler /\ sent = << >>

AiIdle == CtxIdle /\ CfgIdle /\ WsIdle

(* ----------------------- time-machine operations ---------------------- *)

GetVisibilityFilters(event_type, control_date) ==
  LET got == get_visibility_filters(VISIBILITY_FILTERS, event_type, control_date)
  IN  /\ tmCall' = [NoCall EXCEPT !.fn = "get_visibility_filters",
                                  !.event_type = event_type,
                                  !.control_date = control_date,
                                  !.raised = got.raised,
                                  !.filters = got.filters]
      /\ UNCHANGED << VISIBILITY_FILTERS, pvVars, eacVars, fcVars, evmVars, rollVars, aiVars >>

ApplyTimeMachineFilters(statement, event_type, control_date) ==
  LET out == apply_time_machine_filters(VISIBILITY_FILTERS, statement,
                                        event_type, control_date)
  IN  /\ tmCall' = [NoCall EXCEPT !.fn = "apply_time_machine_filters",
                                  !.event_type = event_type,
                                  !.control_date = control_date,
                                  !.statement = statement,
                                  !.raised = out.raised,
                                  !.filters = out.filters,
                                  !.result = out.result]
      /\ UNCHANGED << VISIBILITY_FILTERS, pvVars, eacVars, fcVars, evmVars, rollVars, aiVars >>

\* session.exec(apply_time_machine_filters(select(T), event_type, d)) seen
\* from one row of T: the row is in the result iff the WHERE selects it.
ExecFiltered(event_type, control_date, row) ==
  LET statement == Statement(1, Table(event_type), << >>)
      out == apply_time_machine_filters(VISIBILITY_FILTERS, statement,
                                        event_type, control_date)
  IN  /\ out.raised = "none"
      /\ tmCall' = [NoCall EXCEPT !.fn = "exec",
                                  !.event_type = event_type,
                                  !.control_date = control_date,
                                  !.statement = statement,
                                  !.filters = out.filters,
                                  !.result = out.result,
                                  !.row = row,
                                  !.visible = Selects(out.result.whereclause, row)]
      /\ UNCHANGED << VISIBILITY_FILTERS, pvVars, eacVars, fcVars, evmVars, rollVars, aiVars >>

RegisterTimeMachineFilters(event_type, factory) ==
  /\ VISIBILITY_FILTERS' =
       register_time_machine_filters(VISIBILITY_FILTERS, event_type, factory)
  /\ tmCall' = [NoCall EXCEPT !.fn = "register_time_machine_filters",
                              !.event_type = event_type,
                              !.factory = factory]
  /\ UNCHANGED << pvVars, eacVars, fcVars, evmVars, rollVars, aiVars >>

Get == \E e \in EventTypeInputs, d \in Days : GetVisibilityFilters(e, d)

Apply ==
  \E s \in StatementInputs, e \in EventTypeInputs, d \in Days :
    ApplyTimeMachineFilters(s, e, d)

Exec ==
  \E e \in TimeMachineEventType, d \in Days :
    \E row \in Rows(Table(e)) : ExecFiltered(e, d, row)

Register ==
  \E e \in EventTypeInputs, f \in FilterFactory :
    RegisterTimeMachineFilters(e, f)

Init == TmIdle /\ PvIdle /\ EacIdle /\ FcIdle /\ EvmIdle /\ RollIdle /\ AiIdle

Next == Get \/ Apply \/ Exec

Spec == Init /\ [][Next]_vars

NextReg == Get \/ Apply \/ Register

SpecReg == Init /\ [][NextReg]_vars

(* ------------------------ planned-value requests ---------------------- *)

\* A schedule is recorded for the cost element; any answer computed before
\* belongs to a request that is over.
CreateSchedule(row) ==
  /\ Cardinality(schedules) < MaxSchedules
  /\ row \notin schedules
  /\ schedules' = schedules \cup {row}
  /\ pvQuery' = NoQuery
  /\ UNCHANGED << budget_bac, tmVars, eacVars, fcVars, evmVars, rollVars, aiVars >>

GetPlannedValue(control_date) ==
  LET schedule == get_schedule(VISIBILITY_FILTERS, schedules, control_date)
      out == calculate_cost_element_planned_value(budget_bac, schedule,
                                                  control_date)
  IN  /\ pvQuery' = [asked |-> TRUE, control_date |-> control_date,
                     schedule |-> schedule,
                     planned_value |-> out.planned_value,
                     percent_complete |-> out.percent_complete]
      /\ UNCHANGED << budget_bac, schedules, tmVars, eacVars, fcVars, evmVars, rollVars, aiVars >>

Create == \E row \in ScheduleRows : CreateSchedule(row)

PlannedValue == \E d \in Days : GetPlannedValue(d)

InitPV ==
  /\ TmIdle /\ EacIdle /\ FcIdle /\ EvmIdle /\ RollIdle /\ AiIdle
  /\ budget_bac \in BudgetInputs
  /\ schedules = {}
  /\ pvQuery = NoQuery

NextPV == Create \/ PlannedValue

SpecPV == InitPV /\ [][NextPV]_vars

(* --------------------- calls of the EAC helpers ----------------------- *)

\* Decimals handed to the helpers: both signs, zero in several
\* representations, and third decimals on, below and above a tie.
DecimalInputs ==
  {Dec(-100, 2), Dec(-5, 3), Dec(0, 1), Dec(0, 2), Dec(4, 3), Dec(5, 3),
   Dec(15, 3), Dec(2506, 3), Dec(15, 1), Dec(25000, 2), Dec(45000, 2)}

\* Amounts of two decimal places, as sums of quantized EACs are.
AmountInputs ==
  {Dec(-1, 2), Dec(0, 1), Dec(0, 2), Dec(1, 2), Dec(800, 2), Dec(25000, 2),
   Dec(30000, 2), Dec(45000, 2), Dec(50000, 2)}

CallCalculateCostElementEac(forecast_eac, bac) ==
  /\ eacCall' = [NoEacCall EXCEPT !.fn = "calculate_cost_element_eac",
                                  !.forecast_eac = forecast_eac,
                                  !.budget_bac = bac,
                                  !.result =
                                    calculate_cost_element_eac(forecast_eac, bac)]
  /\ UNCHANGED << costElements, report, tmVars, pvVars, fcVars, evmVars, rollVars, aiVars >>

CallCalculateForecastedQuality(forecast_eac, calculated_eac) ==
  /\ eacCall' = [NoEacCall EXCEPT !.fn = "calculate_forecasted_quality",
                                  !.forecast_eac = forecast_eac,
                                  !.calculated_eac = calculated_eac,
                                  !.result =
                                    calculate_forecasted_quality(forecast_eac,
                                                                 calculated_eac)]
  /\ UNCHANGED << costElements, report, tmVars, pvVars, fcVars, evmVars, rollVars, aiVars >>

CallAggregateForecastedQuality(forecast_eac_sum, total_eac) ==
  /\ eacCall' = [NoEacCall EXCEPT !.fn = "aggregate_forecasted_quality",
                                  !.forecast_eac_sum = forecast_eac_sum,
                                  !.total_eac = total_eac,
                                  !.result =
                                    aggregate_forecasted_quality(forecast_eac_sum,
                                                                 total_eac)]
  /\ UNCHANGED << costElements, report, tmVars, pvVars, fcVars, evmVars, rollVars, aiVars >>

CalcEac ==
  \E f \in DecimalInputs \cup {None}, b \in DecimalInputs \cup {None} :
    CallCalculateCostElementEac(f, b)

CalcQuality ==
  \E f \in DecimalInputs \cup {None}, e \in DecimalInputs :
    CallCalculateForecastedQuality(f, e)

AggQuality ==
  \E fs \in AmountInputs, te \in AmountInputs :
    CallAggregateForecastedQuality(fs, te)

NextEac == CalcEac \/ CalcQuality \/ AggQuality

SpecEac == Init /\ [][NextEac]_vars

(* ------------------------- the EAC report ----------------------------- *)

\* Stored forecasts carry an EAC that passed validation (zero is kept as
\* the helpers' tests exercise it); budgets are never negative.
ForecastInputs == {None, Dec(0, 2), Dec(1005, 3), Dec(25000, 2)}

BacInputs == {Dec(0, 2), Dec(995, 3), Dec(20000, 2)}

CostElementInputs == [forecast_eac : ForecastInputs, budget_bac : BacInputs]

CostElementLists ==
  UNION {[1..n -> CostElementInputs] : n \in 0..MaxElems}

\* The EAC of the next cost element; it also counts towards
\* forecast_eac_sum when the element has a forecast.
ElementEac ==
  /\ report.pc \in {"idle", "elements"}
  /\ Len(report.eacs) < Len(costElements)
  /\ LET ce == costElements[Len(report.eacs) + 1]
         eac == calculate_cost_element_eac(ce.forecast_eac, ce.budget_bac)
     IN  report' = [report EXCEPT
                      !.pc = "elements",
                      !.eacs = Append(@, eac),
                      !.forecast_eac_sum =
                        IF ce.forecast_eac # None THEN DecAdd(@, eac) ELSE @]
  /\ UNCHANGED << eacCall, costElements, tmVars, pvVars, fcVars, evmVars, rollVars, aiVars >>

TotalEac ==
  /\ report.pc \in {"idle", "elements"}
  /\ Len(report.eacs) = Len(costElements)
  /\ report' = [report EXCEPT !.pc = "total",
                              !.total_eac = aggregate_eac(report.eacs)]
  /\ UNCHANGED << eacCall, costElements, tmVars, pvVars, fcVars, evmVars, rollVars, aiVars >>

ReportQuality ==
  /\ report.pc = "total"
  /\ report' = [report EXCEPT
                  !.pc = "done",
                  !.quality =
                    aggregate_forecasted_quality(report.forecast_eac_sum,
                                                 report.total_eac)]
  /\ UNCHANGED << eacCall, costElements, tmVars, pvVars, fcVars, evmVars, rollVars, aiVars >>

InitReport ==
  /\ TmIdle /\ PvIdle /\ FcIdle /\ EvmIdle /\ RollIdle /\ AiIdle
  /\ eacCall = NoEacCall
  /\ costElements \in CostElementLists
  /\ report = NoReport

NextReport == ElementEac \/ TotalEac \/ ReportQuality

SpecReport == InitReport /\ [][NextReport]_vars

(* ============================== properties ============================ *)

\* The business-date columns of a table.
BusinessDates(table) ==
  IF table = "EarnedValueEntry"
  THEN {"completion_date", "registration_date"}
  ELSE {"registration_date"}

\* The visibility rule: every business date is on or before the control
\* date and the row was created on or before that day (UTC).
VisibleRule(row, control_date) ==
  /\ \A c \in BusinessDates(row.table) : row[c] <= control_date
  /\ DayOf(row.created_at) <= control_date

ColumnsOf(filters) == [i \in 1..Len(filters) |-> filters[i].column]

ExpectedColumns(event_type) ==
  IF event_type = EARNED_VALUE
  THEN << "completion_date", "registration_date", "created_at" >>
  ELSE << "registration_date", "created_at" >>

\* C1: for each built-in event type and control date d, get_visibility_filters
\* returns two predicates (registration_date, created_at), or three for
\* EARNED_VALUE (completion_date, registration_date, created_at), whose
\* conjunction holds for a row iff its business dates are <= d and it was
\* created no later than the last instant of day d; a filtered query returns
\* a row exactly under that rule.
C1_FiltersStateTheVisibilityRule ==
  /\ (tmCall.fn = "get_visibility_filters"
      /\ tmCall.event_type \in TimeMachineEventType) =>
        /\ tmCall.raised = "none"
        /\ ColumnsOf(tmCall.filters) = ExpectedColumns(tmCall.event_type)
        /\ \A row \in Rows(Table(tmCall.event_type)) :
             Selects(tmCall.filters, row)
               <=> VisibleRule(row, tmCall.control_date)
  /\ tmCall.fn = "exec" =>
        (tmCall.visible <=> VisibleRule(tmCall.row, tmCall.control_date))

\* A row created at the last instant of the control date is returned.
C1_Witness ==
  /\ tmCall.fn = "exec"
  /\ tmCall.visible
  /\ tmCall.row.created_at = (tmCall.control_date + 1) * TicksPerDay - 1
  /\ tmCall.row.registration_date = tmCall.control_date

\* C2: when the same row is queried again for the same event type with a
\* control date that is not earlier, a row that was visible stays visible.
C2_VisibilityIsMonotonic ==
  [][(/\ tmCall.fn = "exec" /\ tmCall'.fn = "exec"
      /\ tmCall'.event_type = tmCall.event_type
      /\ tmCall'.row = tmCall.row
      /\ tmCall'.control_date >= tmCall.control_date
      /\ tmCall.visible) => tmCall'.visible]_vars

\* A row is still visible at a control date after all of its dates.
C2_Witness ==
  /\ tmCall.fn = "exec"
  /\ tmCall.visible
  /\ tmCall.control_date > tmCall.row.registration_date
  /\ tmCall.control_date > DayOf(tmCall.row.created_at)

\* Schedules registered on or before the control date but entered into the
\* system after its last instant.
BackDated(control_date) ==
  {s \in schedules : /\ s.registration_date <= control_date
                     /\ DayOf(s.created_at) > control_date}

\* C3: a schedule registered on or before the control date but created after
\* the end of that day is never the schedule used for planned value; when it
\* is the cost element's only schedule, planned_value is 0.00 and
\* percent_complete is 0.
C3_BackDatedScheduleIsIgnored ==
  pvQuery.asked =>
    /\ pvQuery.schedule \notin BackDated(pvQuery.control_date)
    /\ (Cardinality(schedules) = 1 /\ BackDated(pvQuery.control_date) = schedules)
         => /\ pvQuery.schedule = NoSchedule
            /\ pvQuery.planned_value = Dec(0, 2)
            /\ pvQuery.percent_complete.unscaled = 0

\* The only schedule is back-dated and the budget is positive.
C3_Witness ==
  /\ pvQuery.asked
  /\ Cardinality(schedules) = 1
  /\ BackDated(pvQuery.control_date) = schedules
  /\ budget_bac.unscaled > 0
  /\ \A s \in schedules : s.registration_date < pvQuery.control_date
                          /\ s.end_date <= pvQuery.control_date
  /\ pvQuery.planned_value = Dec(0, 2)

\* What the registry holds for an event type, applied to a date.
RegisteredPredicates(event_type, control_date) ==
  CallFactory(VISIBILITY_FILTERS[event_type], control_date)

GetRaisesOrReturnsPredicates ==
  tmCall.fn \in {"get_visibility_filters", "apply_time_machine_filters"} =>
    /\ tmCall.raised \in {"none", "ValueError"}
    /\ tmCall.raised = "ValueError"
         <=> tmCall.event_type \notin DOMAIN VISIBILITY_FILTERS
    /\ tmCall.raised = "none" =>
         tmCall.filters =
           RegisteredPredicates(tmCall.event_type, tmCall.control_date)

ApplyCarriesPredicates ==
  (tmCall.fn = "apply_time_machine_filters" /\ tmCall.raised = "none") =>
    /\ tmCall.result.table = tmCall.statement.table
    /\ tmCall.result.whereclause =
         tmCall.statement.whereclause
           \o RegisteredPredicates(tmCall.event_type, tmCall.control_date)

\* C4 as stated: get_visibility_filters raises ValueError for an event type
\* without a factory and otherwise returns its predicates, and
\* apply_time_machine_filters raises or returns a statement carrying them
\* that is never the input statement.
C4_AsStated ==
  /\ GetRaisesOrReturnsPredicates
  /\ ApplyCarriesPredicates
  /\ (tmCall.fn = "apply_time_machine_filters" /\ tmCall.raised = "none") =>
       tmCall.result # tmCall.statement

\* C4: get_visibility_filters raises ValueError exactly for an event type
\* without a factory and otherwise returns its predicates;
\* apply_time_machine_filters raises or returns a statement carrying them,
\* which is the input statement itself exactly when the factory yields no
\* predicate.
C4_UnregisteredFailsAndPredicatesAreCarried ==
  /\ GetRaisesOrReturnsPredicates
  /\ ApplyCarriesPredicates
  /\ (tmCall.fn = "apply_time_machine_filters" /\ tmCall.raised = "none") =>
       (tmCall.result = tmCall.statement
          <=> RegisteredPredicates(tmCall.event_type, tmCall.control_date)
                = << >>)

\* A built-in event type whose factory was replaced by one without
\* predicates hands the statement back, while another event type is still
\* unregistered (and so raises).
C4_Witness ==
  /\ tmCall.fn = "apply_time_machine_filters"
  /\ tmCall.raised = "none"
  /\ tmCall.event_type \in TimeMachineEventType
  /\ VISIBILITY_FILTERS[tmCall.event_type] = "_no_filters"
  /\ tmCall.result = tmCall.statement
  /\ QUALITY_EVENT \notin DOMAIN VISIBILITY_FILTERS

\* C5: after register_time_machine_filters(e, f), get_visibility_filters(e, d)
\* is f(d) for every d, and for every other event type it returns (or
\* raises) what it did before the call.
C5_RegisterLeavesOtherTypesAlone ==
  [][tmCall'.fn = "register_time_machine_filters" =>
       /\ \A d \in Days :
            get_visibility_filters(VISIBILITY_FILTERS', tmCall'.event_type, d)
              = [raised |-> "none",
                 filters |-> CallFactory(tmCall'.factory, d)]
       /\ \A e \in EventTypeInputs \ {tmCall'.event_type} : \A d \in Days :
            get_visibility_filters(VISIBILITY_FILTERS', e, d)
              = get_visibility_filters(VISIBILITY_FILTERS, e, d)]_vars

\* A new event type has been registered while the built-in ones still have
\* their factories.
C5_Witness ==
  /\ tmCall.fn = "register_time_machine_filters"
  /\ tmCall.event_type = QUALITY_EVENT
  /\ QUALITY_EVENT \in DOMAIN VISIBILITY_FILTERS
  /\ VISIBILITY_FILTERS[QUALITY_EVENT] = tmCall.factory
  /\ tmCall.factory # "_no_filters"
  /\ \A e \in TimeMachineEventType : VISIBILITY_FILTERS[e] = BuiltinRegistry[e]

\* result is value rounded to `places` decimal places, ties away from zero:
\* it has that many places, lies within half a unit of the last place of
\* value, and on a tie is the neighbour of larger magnitude.
RoundsHalfUp(result, value, places) ==
  /\ result.places = places
  /\ IF value.places <= places
     THEN result.unscaled = value.unscaled * Pow10(places - value.places)
     ELSE LET f == Pow10(value.places - places)
              diff == Abs(result.unscaled * f - value.unscaled)
          IN  /\ 2 * diff <= f
              /\ 2 * diff = f => Abs(result.unscaled * f) > Abs(value.unscaled)

\* C6: calculate_cost_element_eac returns forecast_eac rounded half-up to two
\* places whenever a forecast is given (a zero forecast gives 0.00, not the
\* BAC), otherwise budget_bac rounded to two places if it is positive,
\* otherwise 0.00.
C6_EacIsForecastElseBac ==
  eacCall.fn = "calculate_cost_element_eac" =>
    IF eacCall.forecast_eac # None
    THEN RoundsHalfUp(eacCall.result, eacCall.forecast_eac, 2)
    ELSE IF eacCall.budget_bac # None /\ eacCall.budget_bac.unscaled > 0
         THEN RoundsHalfUp(eacCall.result, eacCall.budget_bac, 2)
         ELSE eacCall.result = Dec(0, 2)

\* A zero forecast beside a positive budget gives 0.00.
C6_Witness ==
  /\ eacCall.fn = "calculate_cost_element_eac"
  /\ eacCall.forecast_eac = Dec(0, 2)
  /\ eacCall.budget_bac = Dec(45000, 2)
  /\ eacCall.result = Dec(0, 2)

\* C7: calculate_forecasted_quality returns 0.0000 whenever calculated_eac is
\* zero, otherwise 1.0000 with a forecast and 0.0000 without; nothing else.
C7_QualityIsZeroOrOne ==
  eacCall.fn = "calculate_forecasted_quality" =>
    /\ eacCall.result \in {Dec(0, 4), Dec(10000, 4)}
    /\ eacCall.result = Dec(10000, 4)
         <=> (eacCall.calculated_eac.unscaled # 0 /\ eacCall.forecast_eac # None)

\* A forecast is present but the calculated EAC is zero.
C7_Witness ==
  /\ eacCall.fn = "calculate_forecasted_quality"
  /\ eacCall.forecast_eac = Dec(25000, 2)
  /\ eacCall.calculated_eac = Dec(0, 2)
  /\ eacCall.result = Dec(0, 4)

\* result is a / b rounded to `places` decimal places, ties away from zero.
QuotientRoundsHalfUp(result, a, b, places) ==
  LET m == Min(a.places, b.places)
      n == a.unscaled * Pow10(b.places - m) * Pow10(places)
      d == b.unscaled * Pow10(a.places - m)
      diff == Abs(result.unscaled * d - n)
  IN  /\ result.places = places
      /\ 2 * diff <= Abs(d)
      /\ 2 * diff = Abs(d) => Abs(result.unscaled * d) > Abs(n)

\* C8: aggregate_forecasted_quality returns 0.0000 when total_eac is zero and
\* otherwise forecast_eac_sum / total_eac rounded half-up to exactly four
\* places; 250.00 / 450.00 gives 0.5556 and 300.00 / 500.00 gives 0.6000
\* (the quotients of 250000.00 / 450000.00 and 300000.00 / 500000.00).
C8_AggregateQualityIsRoundedRatio ==
  eacCall.fn = "aggregate_forecasted_quality" =>
    /\ IF eacCall.total_eac.unscaled = 0
       THEN eacCall.result = Dec(0, 4)
       ELSE QuotientRoundsHalfUp(eacCall.result, eacCall.forecast_eac_sum,
                                 eacCall.total_eac, 4)
    /\ (eacCall.forecast_eac_sum = Dec(25000, 2)
        /\ eacCall.total_eac = Dec(45000, 2)) => eacCall.result = Dec(5556, 4)
    /\ (eacCall.forecast_eac_sum = Dec(30000, 2)
        /\ eacCall.total_eac = Dec(50000, 2)) => eacCall.result = Dec(6000, 4)

\* The partial-forecast example.
C8_Witness ==
  /\ eacCall.fn = "aggregate_forecasted_quality"
  /\ eacCall.forecast_eac_sum = Dec(25000, 2)
  /\ eacCall.total_eac = Dec(45000, 2)
  /\ eacCall.result = Dec(5556, 4)

MAX_FORECAST_DATES == 3

\* One forecast date more than a cost element may keep.
ForecastDays == 0..MAX_FORECAST_DATES

\* Enough rows for a fourth distinct date to be attempted.
MaxForecasts == MAX_FORECAST_DATES + 1

\* Submitted estimates at completion: negative, zero and 0.01.
EacInputs == {Dec(-100, 2), Dec(0, 2), Dec(1, 2)}

\* Estimates at completion of stored forecasts: 0.01 and 155.64.
StoredEacs == {Dec(1, 2), Dec(15564, 2)}

Forecast(cost_element_id, forecast_date, estimate_at_completion, is_current) ==
  [cost_element_id |-> cost_element_id, forecast_date |-> forecast_date,
   estimate_at_completion |-> estimate_at_completion,
   is_current |-> is_current]

\* The forecast_ids of a cost element's rows.
ForecastsOf(rows, cost_element_id) ==
  {i \in DOMAIN rows : rows[i].cost_element_id = cost_element_id}

\* SELECT DISTINCT forecast_date WHERE cost_element_id = ...
forecast_dates(rows, cost_element_id) ==
  {rows[i].forecast_date : i \in ForecastsOf(rows, cost_element_id)}

CurrentOf(rows, cost_element_id) ==
  {i \in ForecastsOf(rows, cost_element_id) : rows[i].is_current}

\* The estimate at completion must be strictly positive.
validate_eac(eac) == IF eac.unscaled > 0 THEN "none" ELSE "positive"

validate_max_forecast_dates_off_by_one(rows, cost_element_id, forecast_date) ==
  LET existing == forecast_dates(rows, cost_element_id)
  IN  IF forecast_date \notin existing
         /\ Cardinality(existing) > MAX_FORECAST_DATES
      THEN "maximum" ELSE "none"

\* A date that is new for the cost element is refused once it already has
\* MAX_FORECAST_DATES distinct dates.
validate_max_forecast_dates(rows, cost_element_id, forecast_date) ==
  LET existing == forecast_dates(rows, cost_element_id)
  IN  IF forecast_date \notin existing
         /\ Cardinality(existing) >= MAX_FORECAST_DATES
      THEN "maximum" ELSE "none"

ensure_single_current_forecast_all_elements(rows, cost_element_id, forecast_id) ==
  [i \in DOMAIN rows |->
     IF i # forecast_id
     THEN [rows[i] EXCEPT !.is_current = FALSE]
     ELSE rows[i]]

\* Every other forecast of the cost element stops being current.
ensure_single_current_forecast(rows, cost_element_id, forecast_id) ==
  [i \in DOMAIN rows |->
     IF rows[i].cost_element_id = cost_element_id /\ i # forecast_id
     THEN [rows[i] EXCEPT !.is_current = FALSE]
     ELSE rows[i]]

get_forecast_eac_map_ignore_date(rows, cost_element_ids, control_date) ==
  [ce \in cost_element_ids |->
     LET seen == CurrentOf(rows, ce)
     IN  IF seen = {} THEN None
         ELSE rows[CHOOSE i \in seen : \A j \in seen : j <= i]
                .estimate_at_completion]

\* For every requested cost element: the estimate of its current forecast
\* dated on or before the control date (the latest, then the newest row),
\* or None.
get_forecast_eac_map(rows, cost_element_ids, control_date) ==
  [ce \in cost_element_ids |->
     LET seen == {i \in CurrentOf(rows, ce) :
                    rows[i].forecast_date <= control_date}
         latest == {i \in seen : \A j \in seen :
                      \/ rows[j].forecast_date < rows[i].forecast_date
                      \/ /\ rows[j].forecast_date = rows[i].forecast_date
                         /\ j <= i}
     IN  IF latest = {} THEN None
         ELSE rows[CHOOSE i \in latest : TRUE].estimate_at_completion]

\* POST of a forecast: validation, insert, and demotion of the others when
\* the new forecast is current.
CreateForecast(cost_element_id, forecast_date, eac, is_current) ==
  LET invalid == validate_eac(eac)
      full == validate_max_forecast_dates(forecasts, cost_element_id,
                                          forecast_date)
      raised == IF invalid # "none" THEN invalid ELSE full
      forecast_id == Len(forecasts) + 1
      inserted == Append(forecasts, Forecast(cost_element_id, forecast_date,
                                             eac, is_current))
  IN  /\ Len(forecasts) < MaxForecasts
      /\ forecasts' =
           IF raised # "none" THEN forecasts
           ELSE IF is_current
                THEN ensure_single_current_forecast(inserted, cost_element_id,
                                                    forecast_id)
                ELSE inserted
      /\ fcCall' = [NoFcCall EXCEPT
                      !.fn = "create_forecast",
                      !.cost_element_id = cost_element_id,
                      !.forecast_date = forecast_date,
                      !.raised = raised,
                      !.forecast_id = IF raised = "none" THEN forecast_id ELSE 0,
                      !.current_forecast_id =
                        IF raised = "none" /\ is_current THEN forecast_id
                        ELSE 0,
                      !.demoted = IF raised = "none" /\ is_current
                                  THEN CurrentOf(forecasts, cost_element_id)
                                  ELSE {}]
      /\ UNCHANGED << workers, locks, tmVars, pvVars, eacVars, evmVars, rollVars, aiVars >>

\* A stored forecast is made the current one of its cost element.
SetCurrentForecast(forecast_id) ==
  LET cost_element_id == forecasts[forecast_id].cost_element_id
      flagged == [forecasts EXCEPT ![forecast_id].is_current = TRUE]
  IN  /\ forecasts' = ensure_single_current_forecast(flagged, cost_element_id,
                                                     forecast_id)
      /\ fcCall' = [NoFcCall EXCEPT
                      !.fn = "set_current",
                      !.cost_element_id = cost_element_id,
                      !.forecast_id = forecast_id,
                      !.forecast_date = forecasts[forecast_id].forecast_date,
                      !.current_forecast_id = forecast_id,
                      !.demoted = CurrentOf(forecasts, cost_element_id)
                                    \ {forecast_id}]
      /\ UNCHANGED << workers, locks, tmVars, pvVars, eacVars, evmVars, rollVars, aiVars >>

GetForecastEacMap(cost_element_ids, control_date) ==
  /\ fcCall' = [NoFcCall EXCEPT
                  !.fn = "_get_forecast_eac_map",
                  !.ids = cost_element_ids,
                  !.control_date = control_date,
                  !.result = get_forecast_eac_map(forecasts, cost_element_ids,
                                                  control_date)]
  /\ UNCHANGED << forecasts, workers, locks, tmVars, pvVars, eacVars, evmVars, rollVars, aiVars >>

\* Submissions over every forecast date, none of them current.
SubmitDated ==
  \E ce \in CostElementIds, d \in ForecastDays, eac \in EacInputs :
    CreateForecast(ce, d, eac, FALSE)

NextForecast == SubmitDated

SpecForecast == Init /\ [][NextForecast]_vars

\* Submissions on two dates, current or not.
SubmitFlagged ==
  \E ce \in CostElementIds, d \in {0, 1}, cur \in BOOLEAN :
    CreateForecast(ce, d, Dec(1, 2), cur)

SetCurrent == \E i \in DOMAIN forecasts : SetCurrentForecast(i)

NextCurrent == SubmitFlagged \/ SetCurrent

SpecCurrent == Init /\ [][NextCurrent]_vars

\* Stores for the EAC lookup: up to two forecasts, at most one current per
\* cost element (as set-current leaves them).
StoreInputs ==
  {rows \in UNION {[1..n -> [cost_element_id : CostElementIds,
                             forecast_date : Days \cup {MaxDay + 1},
                             estimate_at_completion : StoredEacs,
                             is_current : BOOLEAN]] : n \in 0..2} :
     \A ce \in CostElementIds : Cardinality(CurrentOf(rows, ce)) <= 1}

EacMap ==
  \E ids \in SUBSET CostElementIds, d \in Days : GetForecastEacMap(ids, d)

InitEacMap ==
  /\ TmIdle /\ PvIdle /\ EacIdle /\ EvmIdle /\ RollIdle /\ AiIdle
  /\ forecasts \in StoreInputs
  /\ fcCall = NoFcCall
  /\ workers = [w \in Workers |-> NoWorker]
  /\ locks = [ce \in CostElementIds |-> 0]

NextEacMap == EacMap

SpecEacMap == InitEacMap /\ [][NextEacMap]_vars

(* ================= properties of forecast governance ================== *)

DistinctDatesWithinLimit ==
  \A ce \in CostElementIds :
    Cardinality(forecast_dates(forecasts, ce)) <= MAX_FORECAST_DATES

\* A submission with a valid estimate is decided by the dates its cost
\* element had before: a new date beyond the limit is refused with the
\* "maximum" error (HTTP 400) and the store is left as it was; anything else
\* is accepted and stored as the next row.
SubmissionDecidedByDates ==
  (fcCall'.fn = "create_forecast" /\ fcCall'.raised # "positive") =>
    LET ce == fcCall'.cost_element_id
        d == fcCall'.forecast_date
        existing == forecast_dates(forecasts, ce)
    IN  IF d \notin existing /\ Cardinality(existing) >= 3
        THEN fcCall'.raised = "maximum" /\ forecasts' = forecasts
        ELSE /\ fcCall'.raised = "none"
             /\ Len(forecasts') = Len(forecasts) + 1
             /\ forecasts'[Len(forecasts')].cost_element_id = ce
             /\ forecasts'[Len(forecasts')].forecast_date = d
             /\ forecast_dates(forecasts', ce) = existing \cup {d}

\* C11: after any sequence of forecast submissions, each accepted only when
\* validate_max_forecast_dates passes, a cost element has at most three
\* distinct forecast dates; a new distinct date is accepted while fewer than
\* three exist, and a fourth distinct date is rejected with the "maximum"
\* error, leaving the stored forecasts unchanged.
C11_AtMostThreeForecastDates ==
  /\ []DistinctDatesWithinLimit
  /\ [][SubmissionDecidedByDates]_vars

\* A fourth distinct date has just been refused for a cost element that
\* holds three.
C11_Witness ==
  /\ fcCall.fn = "create_forecast"
  /\ fcCall.raised = "maximum"
  /\ Cardinality(forecast_dates(forecasts, fcCall.cost_element_id)) = 3
  /\ fcCall.forecast_date \notin forecast_dates(forecasts, fcCall.cost_element_id)

(* ================= concurrent forecast submissions ==================== *)

lock_free_always(lock_table, cost_element_id) == TRUE

\* The row lock of a cost element can be taken when no transaction holds it.
lock_free(lock_table, cost_element_id) == lock_table[cost_element_id] = 0

Release(lock_table, cost_element_id, w) ==
  [lock_table EXCEPT ![cost_element_id] = IF @ = w THEN 0 ELSE @]

\* A submission opens its transaction on the cost element.
BeginSubmission(w, cost_element_id, forecast_date) ==
  /\ workers[w].pc = "idle"
  /\ lock_free(locks, cost_element_id)
  /\ locks' = [locks EXCEPT ![cost_element_id] = w]
  /\ workers' = [workers EXCEPT ![w] =
                   [NoWorker EXCEPT !.pc = "check",
                                    !.cost_element_id = cost_element_id,
                                    !.forecast_date = forecast_date]]
  /\ UNCHANGED << forecasts, fcCall, tmVars, pvVars, eacVars, evmVars, rollVars, aiVars >>

\* The check of the limit; a refused submission rolls back.
CheckSubmission(w) ==
  LET me == workers[w]
      raised == validate_max_forecast_dates(forecasts, me.cost_element_id,
                                            me.forecast_date)
  IN  /\ me.pc = "check"
      /\ workers' = [workers EXCEPT ![w] =
                       [me EXCEPT !.pc = IF raised = "none" THEN "insert"
                                         ELSE "done",
                                  !.raised = raised]]
      /\ locks' = IF raised = "none" THEN locks
                  ELSE Release(locks, me.cost_element_id, w)
      /\ UNCHANGED << forecasts, fcCall, tmVars, pvVars, eacVars, evmVars, rollVars, aiVars >>

InsertSubmission(w) ==
  LET me == workers[w]
  IN  /\ me.pc = "insert"
      /\ forecasts' = Append(forecasts,
                             Forecast(me.cost_element_id, me.forecast_date,
                                      Dec(1, 2), FALSE))
      /\ workers' = [workers EXCEPT ![w].pc = "commit"]
      /\ UNCHANGED << locks, fcCall, tmVars, pvVars, eacVars, evmVars, rollVars, aiVars >>

CommitSubmission(w) ==
  LET me == workers[w]
  IN  /\ me.pc = "commit"
      /\ workers' = [workers EXCEPT ![w].pc = "done"]
      /\ locks' = Release(locks, me.cost_element_id, w)
      /\ UNCHANGED << forecasts, fcCall, tmVars, pvVars, eacVars, evmVars, rollVars, aiVars >>

Begin ==
  \E w \in Workers, ce \in CostElementIds, d \in ForecastDays :
    BeginSubmission(w, ce, d)

Check == \E w \in Workers : CheckSubmission(w)

Insert == \E w \in Workers : InsertSubmission(w)

Commit == \E w \in Workers : CommitSubmission(w)

\* Stores holding two distinct forecast dates of one cost element.
RaceStores ==
  {<< Forecast(ce, d1, Dec(1, 2), FALSE), Forecast(ce, d2, Dec(1, 2), TRUE) >> :
     ce \in CostElementIds,
     d1 \in ForecastDays \ {MAX_FORECAST_DATES},
     d2 \in {MAX_FORECAST_DATES}}

InitRace ==
  /\ TmIdle /\ PvIdle /\ EacIdle /\ EvmIdle /\ RollIdle /\ AiIdle
  /\ forecasts \in RaceStores
  /\ fcCall = NoFcCall
  /\ workers = [w \in Workers |-> NoWorker]
  /\ locks = [ce \in CostElementIds |-> 0]

NextRace == Begin \/ Check \/ Insert \/ Commit

SpecRace == InitRace /\ [][NextRace]_vars

\* The submission of w passed the check of the limit.
Passed(w) ==
  \/ workers[w].pc \in {"insert", "commit"}
  \/ workers[w].pc = "done" /\ workers[w].raised = "none"

\* Both submissions are for the cost element of the two stored dates, with
\* two different dates that are new for it.
RacingSubmissions ==
  LET stored == {forecasts[1].forecast_date, forecasts[2].forecast_date}
  IN  /\ \A w \in Workers :
           /\ workers[w].pc # "idle"
           /\ workers[w].cost_element_id = forecasts[1].cost_element_id
           /\ workers[w].forecast_date \notin stored
      /\ workers[1].forecast_date # workers[2].forecast_date

\* C12: two concurrent submissions for the same cost element with different
\* new dates, starting from two stored distinct dates, never both pass the
\* check and commit: in every interleaving of their check and insert steps
\* the cost element keeps at most three distinct forecast dates.
C12_NoCheckThenActRace ==
  /\ DistinctDatesWithinLimit
  /\ RacingSubmissions => ~(Passed(1) /\ Passed(2))

\* Both racing submissions ended: one committed the third date, the other
\* was refused.
C12_Witness ==
  /\ RacingSubmissions
  /\ \A w \in Workers : workers[w].pc = "done"
  /\ \E w \in Workers : workers[w].raised = "maximum"
  /\ \E w \in Workers : workers[w].raised = "none"
  /\ Cardinality(forecast_dates(forecasts, forecasts[1].cost_element_id)) = 3

\* A step that called ensure_single_current_forecast(cost_element, f) ends
\* with f current, every other forecast of the cost element not current, and
\* the forecasts of the other cost elements as they were.
OnlyTheGivenForecastIsCurrent ==
  fcCall'.current_forecast_id # 0 =>
    LET f == fcCall'.current_forecast_id
        ce == fcCall'.cost_element_id
    IN  /\ f \in DOMAIN forecasts'
        /\ forecasts'[f].cost_element_id = ce
        /\ forecasts'[f].is_current
        /\ \A i \in DOMAIN forecasts' \ {f} :
             forecasts'[i].cost_element_id = ce => ~forecasts'[i].is_current
        /\ \A i \in DOMAIN forecasts :
             forecasts[i].cost_element_id # ce => forecasts'[i] = forecasts[i]

AtMostOneCurrent ==
  \A ce \in CostElementIds : Cardinality(CurrentOf(forecasts, ce)) <= 1

\* C13: after ensure_single_current_forecast(cost_element, f), f is current,
\* every other forecast of that cost element is not, and the forecasts of
\* other cost elements are unchanged; hence after any sequence of set-current
\* operations at most one forecast per cost element is current.
C13_SingleCurrentForecast ==
  /\ [][OnlyTheGivenForecastIsCurrent]_vars
  /\ []AtMostOneCurrent

\* A forecast was made current and demoted another one, while another cost
\* element keeps its own current forecast.
C13_Witness ==
  /\ fcCall.fn = "set_current"
  /\ fcCall.demoted # {}
  /\ CurrentOf(forecasts, fcCall.cost_element_id) = {fcCall.forecast_id}
  /\ \E ce \in CostElementIds \ {fcCall.cost_element_id} :
       CurrentOf(forecasts, ce) # {}

\* C14: _get_forecast_eac_map(cost_element_ids, control_date) has an entry
\* for every requested cost element: the estimate at completion of the
\* element's current forecast when its forecast_date is on or before the
\* control date (equality included), and None when the element's only
\* forecast is dated after the control date, so that the EAC is the BAC.
C14_ForecastLookupRespectsControlDate ==
  fcCall.fn = "_get_forecast_eac_map" =>
    /\ DOMAIN fcCall.result = fcCall.ids
    /\ \A ce \in fcCall.ids :
         /\ \A i \in CurrentOf(forecasts, ce) :
              forecasts[i].forecast_date <= fcCall.control_date =>
                fcCall.result[ce] = forecasts[i].estimate_at_completion
         /\ \A i \in ForecastsOf(forecasts, ce) :
              (/\ ForecastsOf(forecasts, ce) = {i}
               /\ forecasts[i].forecast_date > fcCall.control_date) =>
                /\ fcCall.result[ce] = None
                /\ \A bac \in BacInputs :
                     bac.unscaled > 0 =>
                       calculate_cost_element_eac(fcCall.result[ce], bac)
                         = quantize(bac, TWO_PLACES)

\* Both cost elements were looked up: one has its current forecast dated on
\* the control date, the other only a forecast dated after it.
C14_Witness ==
  /\ fcCall.fn = "_get_forecast_eac_map"
  /\ fcCall.ids = CostElementIds
  /\ \E ce \in fcCall.ids :
       /\ fcCall.result[ce] = Dec(15564, 2)
       /\ \E i \in CurrentOf(forecasts, ce) :
            forecasts[i].forecast_date = fcCall.control_date
  /\ \E ce \in fcCall.ids :
       /\ fcCall.result[ce] = None
       /\ \E i \in CurrentOf(forecasts, ce) :
            /\ ForecastsOf(forecasts, ce) = {i}
            /\ forecasts[i].forecast_date = fcCall.control_date + 1

(* ======================= EVM metrics for a context ==================== *)

RECURSIVE Gcd(_, _)
Gcd(a, b) == IF b = 0 THEN a ELSE Gcd(b, a % b)

\* The rational n / d in lowest terms, d # 0.
Ratio(n, d) ==
  LET g == Gcd(Abs(n), Abs(d))
  IN  [num |-> Sgn(d) * Sgn(n) * (Abs(n) \div g), den |-> Abs(d) \div g]

\* Decimal.__truediv__ and Decimal.__sub__, by value.
DecDiv(a, b) ==
  LET p == Max(a.places, b.places) IN Ratio(Rescale(a, p), Rescale(b, p))

DecSub(a, b) ==
  LET p == Max(a.places, b.places) IN Dec(Rescale(a, p) - Rescale(b, p), p)

\* bool(x) of an optional number: None and zero are false.
truthy(x) ==
  /\ x # None
  /\ IF "num" \in DOMAIN x THEN x.num # 0 ELSE x.unscaled # 0

\* float(x): the double nearest to x, named by the value it rounds.
float_of(x) ==
  [float |-> IF "num" \in DOMAIN x THEN x
             ELSE Ratio(x.unscaled, Pow10(x.places))]

calculate_cpi(earned_value, actual_cost) ==
  IF actual_cost.unscaled > 0 THEN DecDiv(earned_value, actual_cost) ELSE None

calculate_spi(earned_value, planned_value) ==
  IF planned_value.unscaled > 0 THEN DecDiv(earned_value, planned_value)
  ELSE None

calculate_tcpi(bac, earned_value, actual_cost) ==
  IF /\ bac.unscaled > 0
     /\ actual_cost.unscaled > 0
     /\ DecSub(bac, actual_cost).unscaled # 0
  THEN DecDiv(DecSub(bac, earned_value), DecSub(bac, actual_cost))
  ELSE None

calculate_cost_variance(earned_value, actual_cost) ==
  DecSub(earned_value, actual_cost)

calculate_schedule_variance(earned_value, planned_value) ==
  DecSub(earned_value, planned_value)

\* [x for x in values if x is not None]
RECURSIVE NotNone(_)
NotNone(values) ==
  IF values = << >> THEN << >>
  ELSE IF Head(values) = None THEN NotNone(Tail(values))
       ELSE << Head(values) >> \o NotNone(Tail(values))

Column(rows, name) == [i \in 1..Len(rows) |-> rows[i][name]]

\* sum(values): Python's sum starts from the integer 0.
PySum(values) == DecSum(values, Dec(0, 0))

\* float(x) if x else None
optional_float(x) == IF truthy(x) THEN float_of(x) ELSE None

collect_baseline_metrics(rows) ==
  IF rows = << >>
  THEN [context_type |-> "baseline",
        planned_value |-> Dec(0, 2), earned_value |-> Dec(0, 2),
        actual_cost |-> Dec(0, 2), budget_bac |-> Dec(0, 2),
        cost_element_count |-> 0]
  ELSE
    LET total_planned_value == PySum(Column(rows, "planned_value"))
        total_budget_bac == PySum(Column(rows, "budget_bac"))
        total_revenue_plan == PySum(Column(rows, "revenue_plan"))
        actual_ac_values == NotNone(Column(rows, "actual_ac"))
        total_actual_ac == IF actual_ac_values # << >>
                           THEN PySum(actual_ac_values) ELSE Dec(0, 2)
        earned_ev_values == NotNone(Column(rows, "earned_ev"))
        total_earned_ev == IF earned_ev_values # << >>
                           THEN PySum(earned_ev_values) ELSE Dec(0, 2)
        forecast_eac_values == NotNone(Column(rows, "forecast_eac"))
        total_forecast_eac == IF forecast_eac_values # << >>
                              THEN PySum(forecast_eac_values) ELSE None
        cpi == IF total_actual_ac.unscaled > 0
               THEN calculate_cpi(total_earned_ev, total_actual_ac) ELSE None
        spi == IF total_planned_value.unscaled > 0
               THEN calculate_spi(total_earned_ev, total_planned_value)
               ELSE None
        tcpi == IF total_budget_bac.unscaled > 0 /\ total_actual_ac.unscaled > 0
                THEN calculate_tcpi(total_budget_bac, total_earned_ev,
                                    total_actual_ac)
                ELSE None
        cv == calculate_cost_variance(total_earned_ev, total_actual_ac)
        sv == calculate_schedule_variance(total_earned_ev, total_planned_value)
    IN  [context_type |-> "baseline",
         planned_value |-> float_of(total_planned_value),
         earned_value |-> float_of(total_earned_ev),
         actual_cost |-> float_of(total_actual_ac),
         budget_bac |-> float_of(total_budget_bac),
         revenue_plan |-> float_of(total_revenue_plan),
         forecast_eac |-> optional_float(total_forecast_eac),
         cpi |-> optional_float(cpi),
         spi |-> optional_float(spi),
         tcpi |-> IF tcpi # None THEN float_of(tcpi) ELSE None,
         cost_variance |-> float_of(cv),
         schedule_variance |-> float_of(sv),
         cost_element_count |-> Len(rows)]

\* Sums first, quantized once; the indices are recomputed from the sums.
aggregate_cost_element_metrics(elements) ==
  LET pv == quantize(DecSum(Column(elements, "planned_value"), Dec(0, 2)),
                     TWO_PLACES)
      ev == quantize(DecSum(Column(elements, "earned_value"), Dec(0, 2)),
                     TWO_PLACES)
      ac == quantize(DecSum(Column(elements, "actual_cost"), Dec(0, 2)),
                     TWO_PLACES)
      bac == quantize(DecSum(Column(elements, "budget_bac"), Dec(0, 2)),
                      TWO_PLACES)
  IN  [planned_value |-> pv, earned_value |-> ev, actual_cost |-> ac,
       budget_bac |-> bac,
       cpi |-> calculate_cpi(ev, ac),
       spi |-> calculate_spi(ev, pv),
       tcpi |-> calculate_tcpi(bac, ev, ac),
       cost_variance |-> calculate_cost_variance(ev, ac),
       schedule_variance |-> calculate_schedule_variance(ev, pv)]

collect_project_metrics(elements) ==
  IF elements = << >>
  THEN [context_type |-> "project",
        planned_value |-> Dec(0, 2), earned_value |-> Dec(0, 2),
        actual_cost |-> Dec(0, 2), budget_bac |-> Dec(0, 2),
        cpi |-> None, spi |-> None, tcpi |-> None,
        cost_variance |-> Dec(0, 2), schedule_variance |-> Dec(0, 2),
        cost_element_count |-> 0]
  ELSE
    LET aggregated == aggregate_cost_element_metrics(elements)
    IN  [context_type |-> "project",
         planned_value |-> float_of(aggregated.planned_value),
         earned_value |-> float_of(aggregated.earned_value),
         actual_cost |-> float_of(aggregated.actual_cost),
         budget_bac |-> float_of(aggregated.budget_bac),
         cpi |-> optional_float(aggregated.cpi),
         spi |-> optional_float(aggregated.spi),
         tcpi |-> IF aggregated.tcpi # None THEN float_of(aggregated.tcpi)
                  ELSE None,
         cost_variance |-> float_of(aggregated.cost_variance),
         schedule_variance |-> float_of(aggregated.schedule_variance),
         cost_element_count |-> Len(elements)]

\* Snapshot rows: planned 0.00 or 1.00, actual cost missing, 1.00 or 4.00,
\* earned value missing, 0.00 or 1.00; and rows without budget or with a
\* forecast.
BaselineCostElementInputs ==
  [planned_value : {Dec(0, 2), Dec(100, 2)},
   budget_bac : {Dec(400, 2)},
   revenue_plan : {Dec(500, 2)},
   actual_ac : {None, Dec(100, 2), Dec(400, 2)},
   earned_ev : {None, Dec(0, 2), Dec(100, 2)},
   forecast_eac : {None}]
  \cup
  {[planned_value |-> Dec(0, 2), budget_bac |-> Dec(0, 2),
    revenue_plan |-> Dec(0, 2), actual_ac |-> Dec(0, 2),
    earned_ev |-> Dec(0, 2), forecast_eac |-> Dec(0, 2)],
   [planned_value |-> Dec(100, 2), budget_bac |-> Dec(400, 2),
    revenue_plan |-> Dec(500, 2), actual_ac |-> Dec(400, 2),
    earned_ev |-> Dec(100, 2), forecast_eac |-> Dec(500, 2)]}

CostElementMetricInputs ==
  [planned_value : {Dec(0, 2), Dec(100, 2)},
   earned_value : {Dec(0, 2), Dec(100, 2)},
   actual_cost : {Dec(0, 2), Dec(100, 2), Dec(400, 2)},
   budget_bac : {Dec(400, 2)}]

CollectBaselineMetrics ==
  /\ metrics' = collect_baseline_metrics(baseline_cost_elements)
  /\ UNCHANGED << baseline_cost_elements, cost_element_metrics,
                  tmVars, pvVars, eacVars, fcVars, rollVars, aiVars >>

CollectProjectMetrics ==
  /\ metrics' = collect_project_metrics(cost_element_metrics)
  /\ UNCHANGED << baseline_cost_elements, cost_element_metrics,
                  tmVars, pvVars, eacVars, fcVars, rollVars, aiVars >>

InitMetrics ==
  /\ TmIdle /\ PvIdle /\ EacIdle /\ FcIdle /\ RollIdle /\ AiIdle
  /\ metrics = NoMetrics
  /\ \/ /\ baseline_cost_elements \in
             UNION {[1..n -> BaselineCostElementInputs] : n \in 0..MaxElems}
        /\ cost_element_metrics = << >>
     \/ /\ baseline_cost_elements = << >>
        /\ cost_element_metrics \in
             UNION {[1..n -> CostElementMetricInputs] : n \in 1..MaxElems}

NextMetrics == CollectBaselineMetrics \/ CollectProjectMetrics

SpecMetrics == InitMetrics /\ [][NextMetrics]_vars

(* ====================== properties of the metrics ===================== *)

\* The sum of the values that are present, 0.00 when there is none.
TotalOf(values) == DecSum(NotNone(values), Dec(0, 2))

\* EV, AC and PV of the context the last metrics were collected for.
ContextTotals ==
  IF metrics.context_type = "baseline"
  THEN [ev |-> TotalOf(Column(baseline_cost_elements, "earned_ev")),
        ac |-> TotalOf(Column(baseline_cost_elements, "actual_ac")),
        pv |-> TotalOf(Column(baseline_cost_elements, "planned_value"))]
  ELSE [ev |-> TotalOf(Column(cost_element_metrics, "earned_value")),
        ac |-> TotalOf(Column(cost_element_metrics, "actual_cost")),
        pv |-> TotalOf(Column(cost_element_metrics, "planned_value"))]

\* A key of the metrics dictionary; a key that is absent reads as null.
MetricOf(name) == IF name \in DOMAIN metrics THEN metrics[name] ELSE None

\* C15: in the metrics returned for a context, CPI = EV / AC if AC > 0 and
\* null otherwise, SPI = EV / PV if PV > 0 and null otherwise: an index is
\* null exactly when its denominator is not positive (EV = 0 with AC > 0
\* yields CPI = 0, not null).
C15_IndexNullIffDenominatorNotPositive ==
  metrics.context_type \in {"baseline", "project"} =>
    LET t == ContextTotals
    IN  /\ MetricOf("cpi") = IF t.ac.unscaled > 0
                             THEN float_of(DecDiv(t.ev, t.ac)) ELSE None
        /\ MetricOf("spi") = IF t.pv.unscaled > 0
                             THEN float_of(DecDiv(t.ev, t.pv)) ELSE None

\* C16: aggregate indices are ratios of sums: PV, EV and AC are summed first
\* and the aggregate CPI = (sum EV) / (sum AC), SPI = (sum EV) / (sum PV),
\* CV = sum EV - sum AC and SV = sum EV - sum PV come from those sums.
C16_IndicesAreRatiosOfSums ==
  (metrics.context_type \in {"baseline", "project"}
   /\ metrics.cost_element_count > 0) =>
    LET t == ContextTotals
    IN  /\ t.ac.unscaled > 0 => metrics.cpi = float_of(DecDiv(t.ev, t.ac))
        /\ t.pv.unscaled > 0 => metrics.spi = float_of(DecDiv(t.ev, t.pv))
        /\ metrics.cost_variance = float_of(DecSub(t.ev, t.ac))
        /\ metrics.schedule_variance = float_of(DecSub(t.ev, t.pv))

(* ==================== properties of planned value ===================== *)

\* The schedules of the cost element that are visible at a control date.
VisibleSchedules(control_date) ==
  {s \in schedules : VisibleRule(s, control_date)}

\* s is registered later than o, or with it and created no earlier.
NoOlderThan(s, o) ==
  \/ o.registration_date < s.registration_date
  \/ /\ o.registration_date = s.registration_date
     /\ o.created_at <= s.created_at

\* C17: the schedule used for planned value is, among the schedules visible
\* under the SCHEDULE filter, the one with the latest registration_date, ties
\* broken by the latest created_at; a later-registered schedule is ignored at
\* control dates before its registration_date or before its created_at day,
\* and replaces the earlier one at control dates on or after both.
C17_LatestVisibleScheduleIsUsed ==
  pvQuery.asked =>
    LET d == pvQuery.control_date
        used == pvQuery.schedule
        visible == VisibleSchedules(d)
    IN  /\ visible = {} => used = NoSchedule
        /\ visible # {} =>
             /\ used \in visible
             /\ \A o \in visible : NoOlderThan(used, o)
        /\ \A s \in schedules :
             (d < s.registration_date \/ d < DayOf(s.created_at)) => used # s
        /\ \A early \in visible, late \in schedules :
             (/\ early.registration_date < late.registration_date
              /\ late.registration_date <= d
              /\ DayOf(late.created_at) <= d) => used # early
        /\ pvQuery.planned_value =
             calculate_cost_element_planned_value(budget_bac, used, d)
               .planned_value

\* Two visible schedules with different periods: the later-registered one is
\* used, although it was created first.
C17_Witness ==
  /\ pvQuery.asked
  /\ \E early \in VisibleSchedules(pvQuery.control_date) :
       /\ early.registration_date < pvQuery.schedule.registration_date
       /\ early.created_at > pvQuery.schedule.created_at
       /\ early.start_date # pvQuery.schedule.start_date

(* ------------- a cost element without schedule or forecast ------------ *)

\* A cost element with no schedule, or with a single one created at the
\* very first instant or after the last control date.
FallbackSchedules ==
  {{}} \cup {{row} : row \in {r \in ScheduleRows :
                                /\ r.start_date = 0
                                /\ r.created_at \in {0, (MaxDay + 1) * TicksPerDay}}}

InitFallback ==
  /\ TmIdle /\ EacIdle /\ FcIdle /\ EvmIdle /\ RollIdle /\ AiIdle
  /\ budget_bac \in BudgetInputs
  /\ schedules \in FallbackSchedules
  /\ pvQuery = NoQuery

NextFallback == PlannedValue \/ CalcEac

SpecFallback == InitFallback /\ [][NextFallback]_vars

\* C18: missing optional data is a defined fallback, never an error: with no
\* schedule visible at the control date the planned-value request succeeds
\* with planned_value 0.00 and percent_complete 0.00, and without a forecast
\* the EAC is the BAC (0.00 when the BAC is not positive) and the forecasted
\* quality is 0.0000.
C18_MissingDataFallsBack ==
  /\ (pvQuery.asked /\ VisibleSchedules(pvQuery.control_date) = {}) =>
       /\ get_visibility_filters(VISIBILITY_FILTERS, SCHEDULE,
                                 pvQuery.control_date).raised = "none"
       /\ pvQuery.schedule = NoSchedule
       /\ pvQuery.planned_value = Dec(0, 2)
       /\ pvQuery.percent_complete = Dec(0, 2)
  /\ (eacCall.fn = "calculate_cost_element_eac" /\ eacCall.forecast_eac = None) =>
       /\ eacCall.result =
            IF eacCall.budget_bac # None /\ eacCall.budget_bac.unscaled > 0
            THEN quantize(eacCall.budget_bac, TWO_PLACES)
            ELSE Dec(0, 2)
       /\ calculate_forecasted_quality(None, eacCall.result) = Dec(0, 4)

\* The only schedule is not visible at the control date of the request, and
\* the EAC of a cost element with a budget and no forecast was computed.
C18_Witness ==
  /\ pvQuery.asked
  /\ schedules # {}
  /\ VisibleSchedules(pvQuery.control_date) = {}
  /\ DecGt(budget_bac, ZERO)
  /\ eacCall.fn = "calculate_cost_element_eac"
  /\ eacCall.forecast_eac = None
  /\ eacCall.budget_bac = Dec(25000, 2)
  /\ eacCall.result = Dec(25000, 2)

(* ---------------- the progression of a single schedule ---------------- *)

\* Periods of two and of three days, of zero length, and starting late.
CurvePeriods ==
  {<< 0, MaxDay >>, << 0, MaxDay + 1 >>, << 1, 1 >>, << 1, MaxDay >>}

\* Budgets of 0.00, 0.01, 1.00 and 100.00.
CurveBudgets == {Dec(0, 2), Dec(1, 2), Dec(100, 2), Dec(10000, 2)}

CurveRows ==
  {[table |-> "CostElementSchedule", start_date |-> p[1], end_date |-> p[2],
    progression_type |-> "linear", registration_date |-> r, created_at |-> 0] :
     p \in CurvePeriods, r \in Days}

InitCurve ==
  /\ TmIdle /\ EacIdle /\ FcIdle /\ EvmIdle /\ RollIdle /\ AiIdle
  /\ budget_bac \in CurveBudgets
  /\ schedules \in {{row} : row \in CurveRows}
  /\ pvQuery = NoQuery

NextCurve == PlannedValue

SpecCurve == InitCurve /\ [][NextCurve]_vars

\* percent (in units of 10^-4) is exactly elapsed / duration.
ExactlyLinear(percent, elapsed, duration) ==
  percent * duration = elapsed * 10000

\* percent (in units of 10^-4) is elapsed / duration rounded half-up.
LinearToFourPlaces(percent, elapsed, duration) ==
  LET diff == Abs(percent * duration - elapsed * 10000)
  IN  /\ 2 * diff <= duration
      /\ 2 * diff = duration => percent * duration > elapsed * 10000

\* percent_complete and planned_value of the last request: the ends, the
\* range, the linear part (exact, or rounded to four places), the zero-length
\* schedule, and the planned value as the budget's share.
CurveAndPlannedValue(exact) ==
  (pvQuery.asked /\ pvQuery.schedule # NoSchedule) =>
    LET s == pvQuery.schedule
        d == pvQuery.control_date
        pct == percent_complete(s, d)
        pv == pvQuery.planned_value
    IN  /\ pct.places = 4
        /\ pct.unscaled >= 0 /\ pct.unscaled <= 10000
        /\ d < s.start_date => pct.unscaled = 0
        /\ d >= s.end_date => pct.unscaled = 10000
        /\ (s.start_date <= d /\ d < s.end_date) =>
             IF exact
             THEN ExactlyLinear(pct.unscaled, d - s.start_date,
                                s.end_date - s.start_date)
             ELSE LinearToFourPlaces(pct.unscaled, d - s.start_date,
                                     s.end_date - s.start_date)
        /\ s.start_date = s.end_date =>
             (pct.unscaled = 10000 <=> d >= s.start_date)
        /\ RoundsHalfUp(pv, Dec(budget_bac.unscaled * pct.unscaled,
                                budget_bac.places + pct.places), 2)
        /\ d < s.start_date => pv = Dec(0, 2)
        /\ d >= s.end_date => pv = quantize(budget_bac, TWO_PLACES)
        /\ (2 * (d - s.start_date) = s.end_date - s.start_date
            /\ s.start_date < s.end_date
            /\ budget_bac = Dec(10000, 2)) => pv = Dec(5000, 2)

\* C19 as stated: percent_complete is 0 before the start, 1 on or after the
\* end, and in between equals (control_date - start_date) /
\* (end_date - start_date); it is within [0, 1]; a zero-length schedule gives
\* 1 iff control_date >= start; planned_value = quantize(budget_bac x
\* percent, 2), 0.00 before the start, the BAC on or after the end, and half
\* the BAC of 100.00 halfway.
C19_AsStated == CurveAndPlannedValue(TRUE)

\* C19, amended: as above, the linear part being (control_date - start_date)
\* / (end_date - start_date) rounded half-up to four decimal places.
C19_PercentCompleteAndPlannedValue == CurveAndPlannedValue(FALSE)

\* One day of a three-day schedule has elapsed: 0.3333 of 100.00 is planned.
C19_Witness ==
  /\ pvQuery.asked
  /\ pvQuery.schedule # NoSchedule
  /\ pvQuery.schedule.end_date - pvQuery.schedule.start_date = 3
  /\ pvQuery.control_date - pvQuery.schedule.start_date = 1
  /\ budget_bac = Dec(10000, 2)
  /\ percent_complete(pvQuery.schedule, pvQuery.control_date) = Dec(3333, 4)
  /\ pvQuery.planned_value = Dec(3333, 2)

(* ================== planned value of WBEs and projects ================ *)

ScheduleRow(start_date, end_date, registration_date, created_at) ==
  [table |-> "CostElementSchedule", start_date |-> start_date,
   end_date |-> end_date, progression_type |-> "linear",
   registration_date |-> registration_date, created_at |-> created_at]

\* Cost elements of a project: a budget of 100.00 planned over every control
\* date; 7.99 without schedule; 0.01 due on day 1 and registered that day;
\* no budget; 50.00 planned from day 0 but registered on day 1.
RollupElements ==
  {[budget_bac |-> Dec(10000, 2),
    schedules |-> {ScheduleRow(0, MaxDay, 0, 0)}],
   [budget_bac |-> Dec(799, 2), schedules |-> {}],
   [budget_bac |-> Dec(1, 2),
    schedules |-> {ScheduleRow(1, 1, 1, TicksPerDay)}],
   [budget_bac |-> Dec(0, 2),
    schedules |-> {ScheduleRow(0, MaxDay, 0, 0)}],
   [budget_bac |-> Dec(5000, 2),
    schedules |-> {ScheduleRow(0, MaxDay, 1, 0)}]}

WbeInputs == UNION {[1..n -> RollupElements] : n \in 0..MaxElems}

ProjectInputs == UNION {[1..n -> WbeInputs] : n \in 0..2}

RECURSIVE Flatten(_)
Flatten(lists) ==
  IF lists = << >> THEN << >> ELSE Head(lists) \o Flatten(Tail(lists))

\* Planned value and budget of each cost element of a list.
element_planned_values(registry, cost_elements, control_date) ==
  [i \in 1..Len(cost_elements) |->
     [planned_value |->
        calculate_cost_element_planned_value(
          cost_elements[i].budget_bac,
          get_schedule(registry, cost_elements[i].schedules, control_date),
          control_date).planned_value,
      budget_bac |-> cost_elements[i].budget_bac]]

\* Sum first, quantize once; the percent is planned value over budget.
aggregate_planned_value(children) ==
  LET planned_value == quantize(DecSum(Column(children, "planned_value"),
                                       Dec(0, 2)), TWO_PLACES)
      bac == DecSum(Column(children, "budget_bac"), Dec(0, 2))
  IN  [planned_value |-> planned_value,
       budget_bac |-> bac,
       percent_complete |->
         IF bac.unscaled = 0 THEN Dec(0, 4)
         ELSE LET q == ScaledQuotient(planned_value, bac, FOUR_PLACES)
              IN  Dec(DivHalfUp(q.n, q.d), FOUR_PLACES)]

\* The planned value of every WBE of the project and of the project itself
\* (over all its cost elements) at one control date.
GetRollup(control_date) ==
  /\ rollup' =
       [asked |-> TRUE, control_date |-> control_date,
        wbes |-> [w \in 1..Len(project) |->
                    aggregate_planned_value(
                      element_planned_values(VISIBILITY_FILTERS, project[w],
                                             control_date))],
        project |-> aggregate_planned_value(
                      element_planned_values(VISIBILITY_FILTERS,
                                             Flatten(project), control_date))]
  /\ UNCHANGED << project, tmVars, pvVars, eacVars, fcVars, evmVars, aiVars >>

Rollup == \E d \in Days : GetRollup(d)

InitRollup ==
  /\ TmIdle /\ PvIdle /\ EacIdle /\ FcIdle /\ EvmIdle /\ AiIdle
  /\ project \in ProjectInputs
  /\ rollup = NoRollup

NextRollup == Rollup

SpecRollup == InitRollup /\ [][NextRollup]_vars

\* The planned value of one cost element at the control date of the rollup.
PlannedValueOf(cost_element) ==
  calculate_cost_element_planned_value(
    cost_element.budget_bac,
    get_schedule(VISIBILITY_FILTERS, cost_element.schedules,
                 rollup.control_date),
    rollup.control_date).planned_value

PlannedValuesOf(cost_elements) ==
  [i \in 1..Len(cost_elements) |-> PlannedValueOf(cost_elements[i])]

\* total is the sum of the amounts, rounded half-up to two places.
IsQuantizedSum(total, amounts) ==
  RoundsHalfUp(total, DecSum(amounts, Dec(0, 2)), 2)

\* percent is planned over budget to four places, or 0 without budget.
IsPercentOf(percent, planned, budget) ==
  IF budget.unscaled = 0 THEN percent = Dec(0, 4)
  ELSE QuotientRoundsHalfUp(percent, planned, budget, 4)

\* C20: for every control date the project's planned_value is the quantized
\* sum of its WBEs' planned values, which is the quantized (two places,
\* half-up) sum of their cost elements' planned values; budget_bac rolls up as
\* the plain sum; the aggregate percent_complete is planned_value over the
\* total budget_bac quantized to four places, or 0 when the total is 0.
C20_RollupConsistency ==
  rollup.asked =>
    /\ Len(rollup.wbes) = Len(project)
    /\ IsQuantizedSum(rollup.project.planned_value,
                      Column(rollup.wbes, "planned_value"))
    /\ IsQuantizedSum(rollup.project.planned_value,
                      PlannedValuesOf(Flatten(project)))
    /\ DecEq(rollup.project.budget_bac,
             DecSum(Column(rollup.wbes, "budget_bac"), Dec(0, 2)))
    /\ DecEq(rollup.project.budget_bac,
             DecSum(Column(Flatten(project), "budget_bac"), Dec(0, 2)))
    /\ IsPercentOf(rollup.project.percent_complete,
                   rollup.project.planned_value, rollup.project.budget_bac)
    /\ \A w \in 1..Len(project) :
         /\ IsQuantizedSum(rollup.wbes[w].planned_value,
                           PlannedValuesOf(project[w]))
         /\ DecEq(rollup.wbes[w].budget_bac,
                  DecSum(Column(project[w], "budget_bac"), Dec(0, 2)))
         /\ IsPercentOf(rollup.wbes[w].percent_complete,
                        rollup.wbes[w].planned_value,
                        rollup.wbes[w].budget_bac)

\* Two WBEs with one cost element each: 0.01 planned of a total budget of
\* 8.00 is 0.00125, reported as 0.0013.
C20_Witness ==
  /\ rollup.asked
  /\ Len(project) = 2
  /\ \A w \in 1..2 : Len(project[w]) = 1
  /\ rollup.project.planned_value = Dec(1, 2)
  /\ rollup.project.budget_bac = Dec(800, 2)
  /\ rollup.project.percent_complete = Dec(13, 4)

(* ===================== collect_context_metrics ======================== *)

ContextIds == {1, 2}

ContextTypeInputs ==
  {"project", "wbe", "cost-element", "baseline", "invalid_type"}

\* created on day 0 at its last instant, or at the first instant of day 1
CreatedAtInputs == {end_of_day(0), end_of_day(0) + 1}

\* session.get(Model, id): the row with that primary key, or None.
session_get(rows, key, id) ==
  IF \E r \in rows : r[key] = id
  THEN CHOOSE r \in rows : r[key] = id
  ELSE None

RECURSIVE RowsInOrder(_, _)
RowsInOrder(rows, key) ==
  IF rows = {} THEN << >>
  ELSE LET first == CHOOSE r \in rows : \A o \in rows : r[key] <= o[key]
       IN  << first >> \o RowsInOrder(rows \ {first}, key)

Raise(message) == [raised |-> message, returned |-> None]

Return(value) == [raised |-> "", returned |-> value]

\* The EVM metrics of one cost element, as the project aggregation reads
\* them.
get_cost_element_evm_metrics(cost_element) ==
  [planned_value |-> Dec(100, 2), earned_value |-> Dec(100, 2),
   actual_cost |-> Dec(100, 2), budget_bac |-> cost_element.budget_bac]

MetricsOfRows(cost_elements) ==
  LET ordered == RowsInOrder(cost_elements, "cost_element_id")
  IN  [i \in 1..Len(ordered) |-> get_cost_element_evm_metrics(ordered[i])]

collect_project_context(database, project_id, control_date) ==
  LET found == session_get(database.projects, "project_id", project_id)
      cutoff == end_of_day(control_date)
      wbes == {w \in database.wbes :
                 w.project_id = project_id /\ w.created_at <= cutoff}
      cost_elements ==
        {c \in database.cost_elements :
           /\ \E w \in database.wbes :
                w.wbe_id = c.wbe_id /\ w.project_id = project_id
           /\ c.created_at <= cutoff}
  IN  IF found = None THEN Raise("Project not found")
      ELSE IF cost_elements = {}
      THEN Return([wbe_count |-> 0]
                  @@ collect_project_metrics(<< >>))
      ELSE Return([wbe_count |-> Cardinality(wbes)]
                  @@ collect_project_metrics(MetricsOfRows(cost_elements)))

collect_wbe_context(database, wbe_id, control_date) ==
  LET wbe == session_get(database.wbes, "wbe_id", wbe_id)
      cutoff == end_of_day(control_date)
      cost_elements ==
        {c \in database.cost_elements :
           c.wbe_id = wbe_id /\ c.created_at <= cutoff}
  IN  IF wbe = None THEN Raise("WBE not found")
      ELSE IF session_get(database.projects, "project_id", wbe.project_id)
              = None
      THEN Raise("Project not found")
      ELSE Return([collect_project_metrics(MetricsOfRows(cost_elements))
                     EXCEPT !.context_type = "wbe"])

collect_cost_element_context(database, cost_element_id, control_date) ==
  LET cost_element == session_get(database.cost_elements, "cost_element_id",
                                  cost_element_id)
      wbe == session_get(database.wbes, "wbe_id", cost_element.wbe_id)
  IN  IF cost_element = None THEN Raise("Cost element not found")
      ELSE IF wbe = None THEN Raise("WBE not found")
      ELSE IF session_get(database.projects, "project_id", wbe.project_id)
              = None
      THEN Raise("Project not found")
      ELSE LET m == get_cost_element_evm_metrics(cost_element)
           IN  Return([context_type |-> "cost-element",
                       planned_value |-> float_of(m.planned_value),
                       earned_value |-> float_of(m.earned_value),
                       actual_cost |-> float_of(m.actual_cost),
                       budget_bac |-> float_of(m.budget_bac)])

collect_baseline_context(database, baseline_id, control_date) ==
  LET baseline == session_get(database.baselines, "baseline_id", baseline_id)
  IN  IF baseline = None THEN Raise("Baseline not found")
      ELSE IF session_get(database.projects, "project_id",
                          baseline.project_id) = None
      THEN Raise("Project not found")
      ELSE Return(collect_baseline_metrics(baseline.cost_elements))

collect_context_any(database, context_type, context_id, control_date) ==
  Return([context_type |-> context_type, cost_element_count |-> 0])

collect_context_metrics(database, context_type, context_id, control_date) ==
  IF context_type = "project"
  THEN collect_project_context(database, context_id, control_date)
  ELSE IF context_type = "wbe"
  THEN collect_wbe_context(database, context_id, control_date)
  ELSE IF context_type = "cost-element"
  THEN collect_cost_element_context(database, context_id, control_date)
  ELSE IF context_type = "baseline"
  THEN collect_baseline_context(database, context_id, control_date)
  ELSE Raise("Invalid context_type")

\* Rows of the store: every WBE and cost element is optional, created on
\* day 0 or day 1; a WBE may name a project, and a cost element a WBE, that
\* has no row.
ProjectRows == {{}, {[project_id |-> 1]}}

Wbe1Rows ==
  {{}} \cup {{[wbe_id |-> 1, project_id |-> 1, created_at |-> t]} :
               t \in CreatedAtInputs}

Wbe2Rows ==
  {{}} \cup {{[wbe_id |-> 2, project_id |-> p,
               created_at |-> end_of_day(0)]} : p \in ContextIds}

WbeRows == {one \cup two : one \in Wbe1Rows, two \in Wbe2Rows}

CostElementRows ==
  {{}}
  \cup {{[cost_element_id |-> 1, wbe_id |-> w, created_at |-> t,
          budget_bac |-> Dec(400, 2)]} :
          w \in ContextIds, t \in CreatedAtInputs}
  \cup {{[cost_element_id |-> 1, wbe_id |-> 1, created_at |-> end_of_day(0),
          budget_bac |-> Dec(400, 2)],
         [cost_element_id |-> 2, wbe_id |-> w, created_at |-> t,
          budget_bac |-> Dec(400, 2)]} :
          w \in ContextIds, t \in CreatedAtInputs}

BaselineRows ==
  {{}}
  \cup {{[baseline_id |-> 1, project_id |-> p, cost_elements |-> << >>]} :
          p \in ContextIds}

DbInputs ==
  [projects : ProjectRows, wbes : WbeRows, cost_elements : CostElementRows,
   baselines : BaselineRows]

CollectContextMetrics(context_type, context_id, control_date) ==
  /\ ctxCall' =
       [fn |-> "collect_context_metrics", context_type |-> context_type,
        context_id |-> context_id, control_date |-> control_date]
       @@ collect_context_metrics(db, context_type, context_id, control_date)
  /\ UNCHANGED << db, tmVars, pvVars, eacVars, fcVars, evmVars, rollVars,
                  cfgVars, wsVars >>

Collect ==
  \E context_type \in ContextTypeInputs, context_id \in ContextIds,
     control_date \in Days :
    CollectContextMetrics(context_type, context_id, control_date)

InitContext ==
  /\ TmIdle /\ PvIdle /\ EacIdle /\ FcIdle /\ EvmIdle /\ RollIdle
  /\ CfgIdle /\ WsIdle
  /\ db \in DbInputs
  /\ ctxCall = NoCtxCall

NextContext == Collect

SpecContext == InitContext /\ [][NextContext]_vars

ValidContextTypes == {"project", "wbe", "cost-element", "baseline"}

NotFoundMessages ==
  {"Project not found", "WBE not found", "Cost element not found",
   "Baseline not found"}

HasProject(project_id) == \E p \in db.projects : p.project_id = project_id

HasWbe(wbe_id) ==
  \E w \in db.wbes : w.wbe_id = wbe_id /\ HasProject(w.project_id)

\* The context and the rows that own it are in the store.
ContextExists(context_type, context_id) ==
  \/ context_type = "project" /\ HasProject(context_id)
  \/ context_type = "wbe" /\ HasWbe(context_id)
  \/ /\ context_type = "cost-element"
     /\ \E c \in db.cost_elements :
          c.cost_element_id = context_id /\ HasWbe(c.wbe_id)
  \/ /\ context_type = "baseline"
     /\ \E b \in db.baselines :
          b.baseline_id = context_id /\ HasProject(b.project_id)

InvalidContextFails ==
  ctxCall.fn = "collect_context_metrics" =>
    /\ ctxCall.context_type \notin ValidContextTypes =>
         ctxCall.raised = "Invalid context_type"
    /\ /\ ctxCall.context_type \in ValidContextTypes
       /\ ~ContextExists(ctxCall.context_type, ctxCall.context_id)
       => ctxCall.raised \in NotFoundMessages
    /\ ctxCall.raised # "" => ctxCall.returned = None

NoRecordModified == db' = db

\* C21: collect_context_metrics fails when its context is invalid: a
\* context_type outside project, wbe, cost-element and baseline raises
\* ValueError "Invalid context_type", a context id (or an owning WBE or
\* project) without a row raises ValueError "... not found"; in both cases
\* no metrics dictionary is returned and no record is modified.
C21_InvalidContextRaises ==
  []InvalidContextFails /\ [][NoRecordModified]_vars

\* A cost element whose WBE has a row but whose project has none.
C21_Witness ==
  /\ ctxCall.fn = "collect_context_metrics"
  /\ ctxCall.context_type = "cost-element"
  /\ \E c \in db.cost_elements : c.cost_element_id = ctxCall.context_id
  /\ ctxCall.raised = "Project not found"
  /\ ctxCall.returned = None

VisibleWbes(project_id, control_date) ==
  {w \in db.wbes : w.project_id = project_id
                   /\ w.created_at <= end_of_day(control_date)}

VisibleCostElements(project_id, control_date) ==
  {c \in db.cost_elements :
     /\ c.created_at <= end_of_day(control_date)
     /\ \E w \in db.wbes : w.wbe_id = c.wbe_id /\ w.project_id = project_id}

\* C29: in the project metrics, wbe_count is the number of the project's
\* WBEs created by the end of the control date and cost_element_count the
\* number of its cost elements created by then, also for a project that has
\* WBEs but no visible cost element.
C29_CountsOfVisibleRows ==
  /\ ctxCall.fn = "collect_context_metrics"
  /\ ctxCall.context_type = "project"
  /\ ctxCall.raised = ""
  => /\ ctxCall.returned.wbe_count =
          Cardinality(VisibleWbes(ctxCall.context_id, ctxCall.control_date))
     /\ ctxCall.returned.cost_element_count =
          Cardinality(VisibleCostElements(ctxCall.context_id,
                                          ctxCall.control_date))

(* ========================= get_openai_config ========================== *)

Text(s) == [text |-> s]

\* A Fernet token of a plain text; only a token made with the configured key
\* decrypts.
FernetToken(plain, made_with_configured_key) ==
  [token_of |-> plain, valid |-> made_with_configured_key]

\* The truth value of an optional string.
str_truthy(x) == x # None /\ x # Text("")

decrypt_api_key(encrypted_key) ==
  IF ~str_truthy(encrypted_key)
  THEN Raise("Encrypted API key cannot be empty")
  ELSE IF "token_of" \in DOMAIN encrypted_key /\ encrypted_key.valid
  THEN Return(Text(encrypted_key.token_of))
  ELSE Raise("Invalid encrypted API key")

first_any(rows, key) ==
  LET matching == {r \in rows : r.config_key = key}
  IN  IF matching = {} THEN None ELSE CHOOSE r \in matching : TRUE

\* select(AppConfiguration).where(config_key == key, is_active).first()
first_active(rows, key) ==
  LET matching == {r \in rows : r.config_key = key /\ r.is_active}
  IN  IF matching = {} THEN None ELSE CHOOSE r \in matching : TRUE

get_openai_config(the_user, rows) ==
  LET user_base_url == the_user.openai_base_url
      user_api_key_encrypted == the_user.openai_api_key_encrypted
      user_model == the_user.openai_model
      default_base_url_config ==
        first_active(rows, "ai_default_openai_base_url")
      default_api_key_config ==
        first_active(rows, "ai_default_openai_api_key_encrypted")
      default_model_config == first_active(rows, "ai_default_openai_model")
      default_base_url ==
        IF default_base_url_config # None
        THEN default_base_url_config.config_value ELSE None
      default_api_key_encrypted ==
        IF default_api_key_config # None
        THEN default_api_key_config.config_value ELSE None
      default_model ==
        IF default_model_config # None
        THEN default_model_config.config_value ELSE None
      base_url == IF str_truthy(user_base_url) THEN user_base_url
                  ELSE default_base_url
      api_key_encrypted ==
        IF str_truthy(user_api_key_encrypted) THEN user_api_key_encrypted
        ELSE default_api_key_encrypted
      model == IF str_truthy(user_model) THEN user_model ELSE default_model
      api_key == decrypt_api_key(api_key_encrypted)
      source ==
        IF str_truthy(user_base_url) /\ str_truthy(user_api_key_encrypted)
        THEN "user"
        ELSE IF ~str_truthy(user_base_url)
                /\ ~str_truthy(user_api_key_encrypted)
        THEN "default"
        ELSE "mixed"
  IN  IF the_user = None THEN Raise("User not found")
      ELSE IF ~str_truthy(base_url) THEN Raise("OpenAI base URL not found")
      ELSE IF ~str_truthy(api_key_encrypted)
      THEN Raise("OpenAI API key not found")
      ELSE IF ~str_truthy(model) THEN Raise("OpenAI model not found")
      ELSE IF api_key.raised # ""
      THEN Raise("Failed to decrypt OpenAI API key")
      ELSE Return([base_url |-> base_url, api_key |-> api_key.returned,
                   model |-> model, source |-> source])

\* Users: each of base URL and model unset (None or empty) or set; the key
\* unset, a token of the configured key, or a token that does not decrypt.
UserInputs ==
  {None}
  \cup [openai_base_url : {None, Text(""), Text("https://user/v1")},
        openai_api_key_encrypted :
          {None, Text(""), FernetToken("sk-user", TRUE),
           FernetToken("sk-user", FALSE)},
        openai_model : {None, Text("user-model")}]

ConfigRow(key, value, is_active) ==
  [config_key |-> key, config_value |-> value, is_active |-> is_active]

\* At most one row per config_key, active or not.
ConfigRowsOf(key, values) ==
  {{}} \cup {{ConfigRow(key, v, a)} : v \in values, a \in BOOLEAN}

AppConfigurationInputs ==
  {url \cup key \cup model :
     url \in ConfigRowsOf("ai_default_openai_base_url",
                          {Text("https://default/v1")}),
     key \in ConfigRowsOf("ai_default_openai_api_key_encrypted",
                          {FernetToken("sk-default", TRUE)}),
     model \in ConfigRowsOf("ai_default_openai_model",
                            {Text("default-model")})}

GetOpenaiConfig ==
  /\ cfgCall' = [fn |-> "get_openai_config"]
                @@ get_openai_config(user, app_configuration)
  /\ UNCHANGED << user, app_configuration, tmVars, pvVars, eacVars, fcVars,
                  evmVars, rollVars, ctxVars, wsVars >>

InitConfig ==
  /\ TmIdle /\ PvIdle /\ EacIdle /\ FcIdle /\ EvmIdle /\ RollIdle
  /\ CtxIdle /\ WsIdle
  /\ user \in UserInputs
  /\ app_configuration \in AppConfigurationInputs
  /\ cfgCall = NoCfgCall

NextConfig == GetOpenaiConfig

SpecConfig == InitConfig /\ [][NextConfig]_vars

\* The value of a field is set.
IsSet(x) == x # None /\ x # Text("")

\* The value of the active default entry of a key, if there is one.
ActiveDefault(key) ==
  IF \E r \in app_configuration : r.config_key = key /\ r.is_active
  THEN (CHOOSE r \in app_configuration :
          r.config_key = key /\ r.is_active).config_value
  ELSE None

Resolved(user_value, key) ==
  IF IsSet(user_value) THEN user_value ELSE ActiveDefault(key)

ResolvedBaseUrl == Resolved(user.openai_base_url, "ai_default_openai_base_url")

ResolvedApiKey ==
  Resolved(user.openai_api_key_encrypted,
           "ai_default_openai_api_key_encrypted")

ResolvedModel == Resolved(user.openai_model, "ai_default_openai_model")

\* C22: get_openai_config resolves base_url, api_key and model
\* independently, each from the user when set and otherwise from the active
\* default entry (inactive entries are ignored); a field with neither raises
\* ValueError, base URL first, then API key, then model; the source is "user"
\* iff the user has both base_url and API key, "default" iff the user has
\* neither, and "mixed" otherwise.
C22_ConfigResolvedPerField ==
  cfgCall.fn = "get_openai_config" /\ user # None =>
    /\ ~IsSet(ResolvedBaseUrl) => cfgCall.raised = "OpenAI base URL not found"
    /\ IsSet(ResolvedBaseUrl) /\ ~IsSet(ResolvedApiKey)
       => cfgCall.raised = "OpenAI API key not found"
    /\ IsSet(ResolvedBaseUrl) /\ IsSet(ResolvedApiKey) /\ ~IsSet(ResolvedModel)
       => cfgCall.raised = "OpenAI model not found"
    /\ cfgCall.raised = "" =>
         /\ cfgCall.returned.base_url = ResolvedBaseUrl
         /\ cfgCall.returned.api_key = Text(ResolvedApiKey.token_of)
         /\ cfgCall.returned.model = ResolvedModel
         /\ cfgCall.returned.source = "user"
              <=> IsSet(user.openai_base_url)
                  /\ IsSet(user.openai_api_key_encrypted)
         /\ cfgCall.returned.source = "default"
              <=> ~IsSet(user.openai_base_url)
                  /\ ~IsSet(user.openai_api_key_encrypted)
         /\ cfgCall.returned.source \in {"user", "default", "mixed"}

\* The user has a base URL only: the key and the model are the active
\* defaults, and the source is mixed.
C22_Witness ==
  /\ cfgCall.fn = "get_openai_config"
  /\ cfgCall.raised = ""
  /\ IsSet(user.openai_base_url)
  /\ ~IsSet(user.openai_api_key_encrypted)
  /\ cfgCall.returned.source = "mixed"
  /\ cfgCall.returned.api_key = Text("sk-default")
  /\ cfgCall.returned.model = Text("default-model")

(* ======================== AI chat WebSocket =========================== *)

MaxRequests == 2

MaxChunks == 2

TokenInputs == {"missing", "invalid", "unknown_user", "inactive", "valid"}

RouteContextTypes == {"project", "wbe", "cost-element", "baseline"}

ClientMessageInputs ==
  {"start_analysis", "message", "unknown_type", "invalid_json"}

\* What a send on a connection the client has left raises.
SendFailures == {"WebSocketDisconnect", "RuntimeError"}

\* get_current_user_from_websocket: the close code and the exception of a
\* refused token, or the user.
get_current_user_accept_inactive(token) ==
  IF token = "missing"
  THEN [close_code |-> 4001, raised |-> "HTTPException", user |-> FALSE]
  ELSE IF token = "invalid"
  THEN [close_code |-> 4002, raised |-> "HTTPException", user |-> FALSE]
  ELSE IF token = "unknown_user"
  THEN [close_code |-> 4003, raised |-> "HTTPException", user |-> FALSE]
  ELSE [close_code |-> 0, raised |-> "", user |-> TRUE]

get_current_user_from_websocket(token) ==
  IF token = "missing"
  THEN [close_code |-> 4001, raised |-> "HTTPException", user |-> FALSE]
  ELSE IF token = "invalid"
  THEN [close_code |-> 4002, raised |-> "HTTPException", user |-> FALSE]
  ELSE IF token = "unknown_user"
  THEN [close_code |-> 4003, raised |-> "HTTPException", user |-> FALSE]
  ELSE IF token = "inactive"
  THEN [close_code |-> 4004, raised |-> "HTTPException", user |-> FALSE]
  ELSE [close_code |-> 0, raised |-> "", user |-> TRUE]

\* The body of the coroutine _validate_context_access.
validate_context_access(database, context_type, context_id) ==
  LET project_of(project_id) ==
        session_get(database.projects, "project_id", project_id)
      wbe_of(wbe_id) == session_get(database.wbes, "wbe_id", wbe_id)
      cost_element == session_get(database.cost_elements, "cost_element_id",
                                  context_id)
  IN  IF context_type = "project"
      THEN IF project_of(context_id) = None
           THEN Raise("HTTPException") ELSE Return(None)
      ELSE IF context_type = "wbe"
      THEN IF wbe_of(context_id) = None THEN Raise("HTTPException")
           ELSE IF project_of(wbe_of(context_id).project_id) = None
           THEN Raise("HTTPException") ELSE Return(None)
      ELSE IF context_type = "cost-element"
      THEN IF cost_element = None THEN Raise("HTTPException")
           ELSE IF wbe_of(cost_element.wbe_id) = None
           THEN Raise("HTTPException")
           ELSE IF project_of(wbe_of(cost_element.wbe_id).project_id) = None
           THEN Raise("HTTPException") ELSE Return(None)
      ELSE IF context_type = "baseline" THEN Return(None)
      ELSE Raise("HTTPException")

\* The handler's call of _validate_context_access: the coroutine function is
\* called and its result is not awaited, so the call yields a coroutine
\* object and the body above does not run.
call_validate_context_access(database, context_type, context_id) ==
  Return([coroutine |-> "_validate_context_access"])

NewHandler(token, context_type, context_id, control_date) ==
  [pc |-> "accept", token |-> token, context_type |-> context_type,
   context_id |-> context_id, control_date |-> control_date,
   client_connected |-> TRUE, user |-> FALSE, session_opened |-> 0,
   session_closed |-> 0, close_code |-> 0, received |-> 0, calls |-> 0,
   request |-> "none", request_no |-> 0, chunks |-> 0,
   exception |-> "none", failed |-> {}, send_failed |-> {}]

Message(type) == [type |-> type, request |-> handler.request_no]

ChunkType(request) ==
  IF request = "start_analysis" THEN "assessment_chunk" ELSE "response_chunk"

CompleteType(request) ==
  IF request = "start_analysis" THEN "assessment_complete"
  ELSE "response_complete"

wsFrame == << tmVars, pvVars, eacVars, fcVars, evmVars, rollVars, ctxVars,
              cfgVars >>

\* websocket.accept(); session = next(get_db())
Accept ==
  /\ handler.pc = "accept"
  /\ handler' = [handler EXCEPT !.pc = "authenticate", !.session_opened = 1]
  /\ UNCHANGED << sent, wsFrame >>

Authenticate ==
  /\ handler.pc = "authenticate"
  /\ LET r == get_current_user_from_websocket(handler.token)
     IN  handler' = [handler EXCEPT
                       !.pc = IF r.raised = "" THEN "validate" ELSE "finally",
                       !.close_code = r.close_code,
                       !.user = r.user,
                       !.exception = IF r.raised = "" THEN "none"
                                     ELSE r.raised]
  /\ UNCHANGED << sent, wsFrame >>

ValidateContext ==
  /\ handler.pc = "validate"
  /\ LET r == call_validate_context_access(db, handler.context_type,
                                           handler.context_id)
     IN  handler' = [handler EXCEPT
                       !.pc = IF r.raised = "" THEN "loop" ELSE "finally",
                       !.exception = IF r.raised = "" THEN "none"
                                     ELSE r.raised]
  /\ UNCHANGED << sent, wsFrame >>

\* The client leaves; from then on receive_json and send_json raise.
ClientDisconnect ==
  /\ handler.pc \notin {"idle", "accept", "done"}
  /\ handler.client_connected
  /\ handler' = [handler EXCEPT !.client_connected = FALSE]
  /\ UNCHANGED << sent, wsFrame >>

\* data = await websocket.receive_json() and the dispatch on its type
ReceiveJson(message_type) ==
  /\ handler.pc = "loop"
  /\ IF ~handler.client_connected
     THEN handler' = [handler EXCEPT !.pc = "finally",
                                     !.exception = "WebSocketDisconnect"]
     ELSE /\ handler.received < MaxRequests
          /\ handler' =
               [handler EXCEPT
                  !.received = @ + 1,
                  !.request_no = @ + 1,
                  !.request = message_type,
                  !.chunks = 0,
                  !.calls = IF message_type \in {"start_analysis", "message"}
                            THEN @ + 1 ELSE @,
                  !.exception = IF message_type = "invalid_json"
                                THEN "JSONDecodeError" ELSE "none",
                  !.failed = IF message_type = "invalid_json"
                             THEN @ \cup {handler.request_no + 1} ELSE @,
                  !.pc = IF message_type \in {"start_analysis", "message"}
                         THEN "collect"
                         ELSE IF message_type = "invalid_json"
                         THEN "route_except" ELSE "unknown"]
  /\ UNCHANGED << sent, wsFrame >>

\* An exception raised inside the try block of the service function.
ServiceRaises(exception, in_send) ==
  [handler EXCEPT
     !.pc = "service_except",
     !.exception = exception,
     !.failed = @ \cup {handler.request_no},
     !.send_failed = IF in_send THEN @ \cup {handler.request_no} ELSE @]

RequestDone ==
  [handler EXCEPT !.pc = "loop", !.request = "none", !.exception = "none"]

\* context_metrics = collect_context_metrics(...)
CollectForRequest ==
  /\ handler.pc = "collect"
  /\ LET r == collect_context_metrics(db, handler.context_type,
                                      handler.context_id,
                                      handler.control_date)
     IN  handler' = IF r.raised # "" THEN ServiceRaises("ValueError", FALSE)
                    ELSE [handler EXCEPT !.pc = "create_chat_model"]
  /\ UNCHANGED << sent, wsFrame >>

\* chat_model = create_chat_model(session, user_id)
CreateChatModel ==
  /\ handler.pc = "create_chat_model"
  /\ LET r == get_openai_config(user, app_configuration)
     IN  handler' = IF r.raised # "" THEN ServiceRaises("ValueError", FALSE)
                    ELSE [handler EXCEPT !.pc = "stream"]
  /\ UNCHANGED << sent, wsFrame >>

\* One chunk of chain.astream(...) is sent.
StreamChunk ==
  /\ handler.pc = "stream"
  /\ handler.chunks < MaxChunks
  /\ IF handler.client_connected
     THEN /\ sent' = Append(sent, Message(ChunkType(handler.request)))
          /\ handler' = [handler EXCEPT !.chunks = @ + 1]
     ELSE /\ \E e \in SendFailures : handler' = ServiceRaises(e, TRUE)
          /\ UNCHANGED sent
  /\ UNCHANGED wsFrame

\* The stream ends and the completion message is sent.
StreamComplete ==
  /\ handler.pc = "stream"
  /\ IF handler.client_connected
     THEN /\ sent' = Append(sent, Message(CompleteType(handler.request)))
          /\ handler' = RequestDone
     ELSE /\ \E e \in SendFailures : handler' = ServiceRaises(e, TRUE)
          /\ UNCHANGED sent
  /\ UNCHANGED wsFrame

StreamRaisesAndGoesOn ==
  /\ handler.pc = "stream"
  /\ handler' = [handler EXCEPT !.exception = "Exception",
                                 !.failed = @ \cup {handler.request_no}]
  /\ UNCHANGED << sent, wsFrame >>

\* The model call fails while streaming.
StreamRaises ==
  /\ handler.pc = "stream"
  /\ handler' = ServiceRaises("Exception", FALSE)
  /\ UNCHANGED << sent, wsFrame >>

\* except ValueError / except Exception of the service function: send an
\* error and raise again.
ServiceExcept ==
  /\ handler.pc = "service_except"
  /\ IF handler.client_connected
     THEN /\ sent' = Append(sent, Message("error"))
          /\ handler' = [handler EXCEPT !.pc = "route_except"]
     ELSE /\ \E e \in SendFailures :
               handler' = [handler EXCEPT
                             !.pc = "route_except", !.exception = e,
                             !.send_failed = @ \cup {handler.request_no}]
          /\ UNCHANGED sent
  /\ UNCHANGED wsFrame

RouteExceptEndsSession ==
  /\ handler.pc = "route_except"
  /\ sent' = IF handler.client_connected
             THEN Append(sent, Message("error")) ELSE sent
  /\ handler' = [handler EXCEPT !.pc = "finally"]
  /\ UNCHANGED wsFrame

\* The except clauses of the message loop.
RouteExcept ==
  /\ handler.pc = "route_except"
  /\ IF handler.exception = "WebSocketDisconnect"
     THEN /\ handler' = [handler EXCEPT !.pc = "finally"]
          /\ UNCHANGED sent
     ELSE IF handler.client_connected
     THEN /\ sent' = Append(sent, Message("error"))
          /\ handler' = RequestDone
     ELSE /\ \E e \in SendFailures :
               handler' = [handler EXCEPT
                             !.pc = "outer_except", !.exception = e,
                             !.send_failed = @ \cup {handler.request_no}]
          /\ UNCHANGED sent
  /\ UNCHANGED wsFrame

\* else: send_message({"type": "error", "content": "Unknown message type"})
UnknownMessageType ==
  /\ handler.pc = "unknown"
  /\ IF handler.client_connected
     THEN /\ sent' = Append(sent, Message("error"))
          /\ handler' = RequestDone
     ELSE /\ \E e \in SendFailures :
               handler' = [handler EXCEPT
                             !.pc = "route_except", !.exception = e,
                             !.failed = @ \cup {handler.request_no},
                             !.send_failed = @ \cup {handler.request_no}]
          /\ UNCHANGED sent
  /\ UNCHANGED wsFrame

OuterExceptClosesSession ==
  /\ handler.pc = "outer_except"
  /\ UNCHANGED sent
  /\ handler' = [handler EXCEPT !.pc = "finally", !.close_code = 4000,
                                 !.session_closed = @ + 1]
  /\ UNCHANGED wsFrame

\* The outer except Exception: try to send an error, then close(4000).
OuterExcept ==
  /\ handler.pc = "outer_except"
  /\ sent' = IF handler.client_connected
             THEN Append(sent, Message("error")) ELSE sent
  /\ handler' = [handler EXCEPT !.pc = "finally", !.close_code = 4000]
  /\ UNCHANGED wsFrame

\* finally: session.close()
Finally ==
  /\ handler.pc = "finally"
  /\ handler' = [handler EXCEPT !.pc = "done", !.session_closed = @ + 1]
  /\ UNCHANGED << sent, wsFrame >>

Receive == \E message_type \in ClientMessageInputs : ReceiveJson(message_type)

\* A store without rows and a store with one project, WBE, cost element and
\* baseline.
ChatDbInputs ==
  {EmptyDb,
   [projects |-> {[project_id |-> 1]},
    wbes |-> {[wbe_id |-> 1, project_id |-> 1, created_at |-> 0]},
    cost_elements |-> {[cost_element_id |-> 1, wbe_id |-> 1,
                        created_at |-> 0, budget_bac |-> Dec(400, 2)]},
    baselines |-> {[baseline_id |-> 1, project_id |-> 1,
                    cost_elements |-> << >>]}]}

\* A user with a complete OpenAI configuration and one without any.
ChatUserInputs ==
  {[openai_base_url |-> Text("https://user/v1"),
    openai_api_key_encrypted |-> FernetToken("sk-user", TRUE),
    openai_model |-> Text("user-model")],
   [openai_base_url |-> None, openai_api_key_encrypted |-> None,
    openai_model |-> None]}

InitChat ==
  /\ TmIdle /\ PvIdle /\ EacIdle /\ FcIdle /\ EvmIdle /\ RollIdle
  /\ db \in ChatDbInputs
  /\ ctxCall = NoCtxCall
  /\ user \in ChatUserInputs
  /\ app_configuration = {}
  /\ cfgCall = NoCfgCall
  /\ \E token \in TokenInputs, context_type \in RouteContextTypes :
       handler = NewHandler(token, context_type, 1, 0)
  /\ sent = << >>

NextChat ==
  \/ Accept
  \/ Authenticate
  \/ ValidateContext
  \/ ClientDisconnect
  \/ Receive
  \/ CollectForRequest
  \/ CreateChatModel
  \/ StreamChunk
  \/ StreamComplete
  \/ StreamRaises
  \/ ServiceExcept
  \/ RouteExcept
  \/ UnknownMessageType
  \/ OuterExcept
  \/ Finally

SpecChat == InitChat /\ [][NextChat]_vars

\* The handler is in its message loop or in a request of it.
InMessageLoop ==
  handler.pc \in {"loop", "collect", "create_chat_model", "stream",
                  "service_except", "route_except", "unknown",
                  "outer_except"}

\* C23: for a context_type of project, wbe or cost-element whose context_id
\* (or owning WBE or project) does not exist, the existence check fails
\* before the message loop is entered, so no client message is ever received
\* or processed on that connection.
C23_MissingContextStopsBeforeLoop ==
  /\ handler.pc # "idle"
  /\ handler.context_type \in {"project", "wbe", "cost-element"}
  /\ ~ContextExists(handler.context_type, handler.context_id)
  => /\ ~InMessageLoop
     /\ handler.received = 0
     /\ handler.calls = 0

DocumentedMessageTypes ==
  {"assessment_chunk", "response", "error", "status", "assessment_complete"}

\* C24: every message sent on an AI chat connection, for any sequence of
\* client messages, has a type of the documented protocol: assessment_chunk,
\* response, error, status or assessment_complete.
C24_OnlyDocumentedMessageTypes ==
  \A i \in 1..Len(sent) : sent[i].type \in DocumentedMessageTypes

CloseCodeOfToken ==
  [missing |-> 4001, invalid |-> 4002, unknown_user |-> 4003,
   inactive |-> 4004]

\* C25: with a missing, invalid, unknown-user or inactive-user token the
\* socket is closed with 4001, 4002, 4003 or 4004 and the handler ends
\* without receive_json, generate_initial_assessment or send_chat_message;
\* the message loop is reached only after get_current_user_from_websocket
\* returned a user.
C25_NoMessageWithoutUser ==
  /\ handler.pc \notin {"idle", "accept", "authenticate"}
     /\ handler.token # "valid"
     => /\ handler.pc \in {"finally", "done"}
        /\ handler.close_code = CloseCodeOfToken[handler.token]
        /\ handler.received = 0
        /\ handler.calls = 0
  /\ handler.pc # "idle" /\ (InMessageLoop \/ handler.received > 0)
     => handler.user /\ handler.token = "valid"

\* An inactive user: closed with 4004, nothing received, handler ended.
C25_Witness ==
  /\ handler.pc = "done"
  /\ handler.token = "inactive"
  /\ handler.close_code = 4004
  /\ handler.received = 0

ChunkTypes == {"assessment_chunk", "response_chunk"}

CompleteTypes == {"assessment_complete", "response_complete"}

\* The request is over: a later one was received or the handler is back in
\* receive_json or past the loop.
RequestEnded(r) ==
  /\ r \in 1..handler.request_no
  /\ r < handler.request_no \/ handler.pc \in {"loop", "finally", "done"}

MessagesOf(r) == SelectSeq(sent, LAMBDA msg : msg.request = r)

\* C27: within one request every chunk is sent before the complete message
\* of that request, the complete message is sent only if no exception
\* occurred, no chunk and no error message of the request follows its
\* complete message, and a request whose sends succeed ends with a complete
\* message or an error message.
C27_StreamOrderedAndTerminated ==
  handler.pc # "idle" =>
    /\ \A i \in 1..Len(sent) : \A j \in 1..Len(sent) :
         /\ i < j
         /\ sent[i].request = sent[j].request
         /\ sent[i].type \in CompleteTypes
         => sent[j].type \notin ChunkTypes \cup {"error"}
    /\ \A i \in 1..Len(sent) :
         sent[i].type \in CompleteTypes => sent[i].request \notin handler.failed
    /\ \A r \in 1..handler.request_no :
         RequestEnded(r) /\ r \notin handler.send_failed
         => /\ MessagesOf(r) # << >>
            /\ MessagesOf(r)[Len(MessagesOf(r))].type
                 \in CompleteTypes \cup {"error"}

\* A first request streamed two chunks and its complete message; a second
\* one streamed a chunk, failed and ended with error messages.
C27_Witness ==
  /\ handler.pc = "loop"
  /\ handler.request_no = 2
  /\ Len(MessagesOf(1)) = 3
  /\ MessagesOf(1)[1].type \in ChunkTypes
  /\ MessagesOf(1)[2].type \in ChunkTypes
  /\ MessagesOf(1)[3].type \in CompleteTypes
  /\ Len(MessagesOf(2)) = 3
  /\ MessagesOf(2)[1].type \in ChunkTypes
  /\ MessagesOf(2)[2].type = "error"
  /\ MessagesOf(2)[3].type = "error"
  /\ 2 \in handler.failed

\* In the except clause of the loop, or about to answer an unknown type,
\* with the client connected: the error is sent and receive_json is next.
ErrorThenNextMessage ==
  /\ handler.pc \in {"route_except", "unknown"}
  /\ handler.exception # "WebSocketDisconnect"
  /\ handler.client_connected
  /\ handler'.client_connected
  /\ handler' # handler
  => /\ sent' = Append(sent, Message("error"))
     /\ handler'.pc = "loop"

\* Past the loop (or on the way out of it) the client has left.
LoopLeftOnlyOnDisconnect ==
  /\ handler.pc \in {"outer_except", "finally", "done"}
  /\ handler.user
  /\ handler.exception # "HTTPException"
  => ~handler.client_connected

\* C28: after a client message of unknown type, or after
\* generate_initial_assessment or send_chat_message raised, an error message
\* is sent and, as long as that send succeeds, the handler goes on to receive
\* and process the next client message; only a client disconnect ends the
\* message loop.
C28_FailedRequestKeepsSession ==
  [][ErrorThenNextMessage]_vars /\ []LoopLeftOnlyOnDisconnect

\* The first request failed with a ValueError and was answered with error
\* messages; the second request is being processed.
C28_Witness ==
  /\ handler.request_no = 2
  /\ handler.pc = "collect"
  /\ 1 \in handler.failed
  /\ 1 \notin handler.send_failed
  /\ Len(sent) = 2
  /\ \A i \in 1..2 : sent[i] = [type |-> "error", request |-> 1]

(* ============ forecast quality of a single cost element =============== *)

\* The EAC of one cost element, its quality by calculate_forecasted_quality
\* and the quality aggregate_forecasted_quality gives for a report of that
\* element alone.
QualityOfOneElement(forecast_eac, bac) ==
  LET eac == calculate_cost_element_eac(forecast_eac, bac)
      forecast_eac_sum == IF forecast_eac # None THEN eac ELSE Dec(0, 2)
      total_eac == aggregate_eac(<< eac >>)
  IN  /\ eacCall' =
           [NoEacCall EXCEPT
              !.fn = "quality_of_one_element",
              !.forecast_eac = forecast_eac,
              !.budget_bac = bac,
              !.calculated_eac = eac,
              !.forecast_eac_sum = forecast_eac_sum,
              !.total_eac = total_eac,
              !.result =
                [element |-> calculate_forecasted_quality(forecast_eac, eac),
                 aggregate |-> aggregate_forecasted_quality(forecast_eac_sum,
                                                            total_eac)]]
      /\ UNCHANGED << costElements, report, tmVars, pvVars, fcVars, evmVars,
                      rollVars, aiVars >>

OneElement ==
  \E f \in DecimalInputs \cup {None}, b \in DecimalInputs \cup {None} :
    QualityOfOneElement(f, b)

NextOneElement == OneElement

SpecOneElement == Init /\ [][NextOneElement]_vars

\* C30: on a single cost element the per-element and the aggregate forecast
\* quality agree: with eac = calculate_cost_element_eac(forecast_eac,
\* budget_bac), aggregate_forecasted_quality(eac if forecast_eac is not None
\* else 0.00, aggregate_eac([eac])) equals
\* calculate_forecasted_quality(forecast_eac, eac).
C30_ElementAndAggregateQualityAgree ==
  eacCall.fn = "quality_of_one_element" =>
    eacCall.result.aggregate = eacCall.result.element

\* A forecast of 2.506 gives an EAC of 2.51 and a quality of 1.0000 both
\* ways.
C30_Witness ==
  /\ eacCall.fn = "quality_of_one_element"
  /\ eacCall.forecast_eac = Dec(2506, 3)
  /\ eacCall.calculated_eac = Dec(251, 2)
  /\ eacCall.result.element = Dec(10000, 4)
  /\ eacCall.result.aggregate = Dec(10000, 4)

============================================================================
